---- MODULE Spec2Model ----
(***************************************************************************)
(* State-machine model of the detection-and-monitoring engine:             *)
(*   - ArbitrageScanner   (src/src/scanner/ArbitrageScanner.ts)            *)
(*   - MonitoringManager  (src/src/monitoring/MonitoringManager.ts)        *)
(*     with its components PoolStateMonitor, PriceOracleClient and          *)
(*     LiquidityMonitor.                                                    *)
(*                                                                         *)
(* Units.  decimal.js values are modelled exactly in integers:             *)
(*   price      whole quote units (100 means 100.0)                        *)
(*   money      micro units (1e-6): costs, netProfit                       *)
(*   rates      1e-4 units (25 means 0.0025)                               *)
(*   liquidity  thousands (2000 means 2,000,000)                           *)
(*   time       ticks of 6000 ms                                           *)
(* JavaScript numbers (executionProbability, liquidityScore, confidence)   *)
(* are fixed point, 1e-4 units, every product rounded down.                *)
(***************************************************************************)
EXTENDS Integers, Sequences, FiniteSets, TLC

VARIABLES
    \* ---- ArbitrageScanner
    priceCache,          \* Map<string, PoolUpdate>, in insertion order
    scIsRunning,         \* ArbitrageScanner.isRunning
    scanInterval,        \* TRUE while the rescan timer is set
    scTimers,            \* rescan timers alive (setInterval without clearInterval)
    scStarting,          \* number of start() calls awaiting the connection
    wsSubscribed,        \* the WebSocket client holds pool subscriptions
    minProfitThreshold,  \* config.scanning.minProfitThreshold, tenths of a percent
    \* ---- environment
    now,                 \* Date.now(), in ticks
    hour,                \* new Date().getHours()
    feeds,               \* what the SOL account of each oracle holds, by source
    \* ---- MonitoringManager
    mmIsInitialized,
    mmIsRunning,
    mmMonitoredPools,
    pending,             \* calls and handlers suspended at an await, oldest first
    eventStats,          \* Map<string, number>: relayed events counted by type
    totalEvents,
    \* ---- PoolStateMonitor
    pmIsMonitoring,
    pmHealthCheckInterval,
    pmSubscriptions,
    pmMonitoredPools,    \* Map<string, PoolStateSnapshot>
    \* ---- PriceOracleClient
    pythConnected,
    switchboardConnected,
    ocSubscriptions,
    ocPriceCache,        \* Map<string, OraclePrice>, by token
    ocMultiPriceCache,   \* Map<string, MultiOraclePrice>, by token
    \* ---- LiquidityMonitor
    lmIsMonitoring,
    lmMonitoringInterval,
    liquidityHistory,    \* Map<string, LiquidityDataPoint[]>
    liquidityThresholds, \* Map<string, Decimal>, in thousands
    activeAlerts,        \* Map<string, LiquidityAlert[]>
    \* ---- Connection: account-change listeners registered, per key
    listeners,
    \* ---- PoolStateMonitor, listener by listener
    pmListeners,         \* the listeners onAccountChange registered, by the id it returned
    pmSubscriptionIds,   \* Map<string, number>: subscriptions, the id recorded for a pool
    \* ---- SolanaWebSocketClient
    sockets,             \* the WebSocket objects created so far, each by its state
    ws,                  \* the socket this.ws refers to; 0 for null
    wsIsConnecting,
    reconnectAttempts,
    reconnectTimers,     \* setTimeout callbacks of scheduleReconnect not yet run
    heartbeatInterval,   \* TRUE while the field holds a timer
    subscriptions,       \* Map<string, AccountSubscription>, in insertion order
    wsClock,             \* Date.now() as the client last read it, in ms
    wsCalls,             \* calls of the client suspended at an await
    \* ---- observation of the last handler that ran
    lastOp,              \* its name
    args,                \* the arguments of a query, by name
    raised,              \* TRUE when it threw to its caller
    out,                 \* the events it emitted, in order
    inner,               \* the events the coordinator's components emitted, in order
    returned             \* the value it returned, when it is a query

scannerVars == <<priceCache, scIsRunning, scanInterval, scTimers, scStarting, wsSubscribed,
                 minProfitThreshold>>
pmIdVars == <<pmListeners, pmSubscriptionIds>>
wsVars == <<sockets, ws, wsIsConnecting, reconnectAttempts, reconnectTimers, heartbeatInterval,
            subscriptions, wsClock, wsCalls>>
clientVars == <<pmIdVars, wsVars>>
envVars == <<now, hour, feeds, clientVars>>
statsVars == <<eventStats, totalEvents>>
managerVars == <<mmIsInitialized, mmIsRunning, mmMonitoredPools, pending, statsVars>>
poolMonitorVars == <<pmIsMonitoring, pmHealthCheckInterval, pmSubscriptions, pmMonitoredPools>>
oracleVars ==
    <<pythConnected, switchboardConnected, ocSubscriptions, ocPriceCache, ocMultiPriceCache>>
liquidityData == <<liquidityHistory, liquidityThresholds, activeAlerts>>
liquidityVars == <<lmIsMonitoring, lmMonitoringInterval, liquidityData>>
coordinatorVars == <<managerVars, poolMonitorVars, oracleVars, liquidityVars, listeners>>
obsVars == <<lastOp, args, raised, out, inner, returned>>
vars == <<scannerVars, envVars, coordinatorVars, obsVars>>

----------------------------------------------------------------------------
(* Bounds of the model *)

MaxTime == 1
MaxStarting == 1
MaxTimers == 2
MaxPending == 1

(* Input domains *)

Dexes == {"Raydium", "Orca"}
\* config.pools: two Raydium pools and one Orca pool, by the head of their address
PoolsOf(dex) == IF dex = "Raydium" THEN {"58oQ", "7qhG"} ELSE {"EGZ7"}
Pools == {"58oQ", "7qhG", "EGZ7"}
\* the token pair each configured pool trades
InstrumentOf(pool) == IF pool = "7qhG" THEN "SOL/USDT" ELSE "SOL/USDC"
Prices == {100, 101, 102}
Liquidities == {0, 20000}
Hours == {3, 10, 15}
Thresholds == {1, 20}

Min(a, b) == IF a <= b THEN a ELSE b
Max(a, b) == IF a >= b THEN a ELSE b

\* a Map as a function on its keys
EmptyMap == [k \in {} |-> 0]
MapSet(m, key, value) == [k \in DOMAIN m \cup {key} |-> IF k = key THEN value ELSE m[k]]
MapDelete(m, keys) == [k \in DOMAIN m \ keys |-> m[k]]

\* PoolStateSnapshot: the fields the monitor reads back; liquidity in thousands
Snapshot(timestamp, price, liquidity, healthScore) ==
    [timestamp |-> timestamp, currentPrice |-> price, totalLiquidity |-> liquidity,
     healthScore |-> healthScore]

\* new Decimal(100000), in thousands
DefaultThreshold == 100

\* the sources of oracle readings, and their accounts before any price is published
Sources == {"pyth", "switchboard"}
NoFeeds == [source \in Sources |-> <<>>]

----------------------------------------------------------------------------
(* ArbitrageScanner: pure computations *)

\* One tick of the clock in milliseconds.
AgeMs(ticks) == ticks * 6000

\* price in whole units -> micro units
Micro(p) == p * 1000000

\* cacheKey = `${update.dex}:${update.pool}`
CacheKey(update) == update.dex \o ":" \o update.pool

getDexFeeRate(dex) ==
    CASE dex = "Raydium"  -> 25
      [] dex = "Orca"     -> 30
      [] dex = "Phoenix"  -> 20
      [] dex = "Jupiter"  -> 40
      [] dex = "Meteora"  -> 30
      [] dex = "Lifinity" -> 20
      [] dex = "Aldrin"   -> 30
      [] dex = "Saber"    -> 25
      [] OTHER            -> 30

\* feeRates is an object literal: besides its own eight keys, feeRates[dex] finds
\* the members of Object.prototype, among them these, and then `feeRates[dex] || 0.003`
\* is a function or an object and not a number
InheritedKeys == {"constructor", "toString", "valueOf", "__proto__"}

FeeRateIsNumber(dex) == dex \notin InheritedKeys

\* reliability factor, 1e-4 units
getDexReliabilityFactor(dex) ==
    CASE dex = "Raydium"  -> 9500
      [] dex = "Orca"     -> 9300
      [] dex = "Phoenix"  -> 9000
      [] dex = "Jupiter"  -> 8500
      [] dex = "Meteora"  -> 8800
      [] dex = "Lifinity" -> 8700
      [] dex = "Aldrin"   -> 8500
      [] dex = "Saber"    -> 8600
      [] OTHER            -> 8000

\* congestion multiplier in tenths, from the hour of the day
getNetworkCongestionMultiplier(h) ==
    IF h >= 14 /\ h <= 18 THEN 15
    ELSE IF h >= 9 /\ h <= 21 THEN 12
    ELSE 10

\* calculateSlippageFromLiquidity with gt in place of gte
calculateSlippageFromLiquidityStrict(liquidity) ==
    IF liquidity > 100000 THEN 10
    ELSE IF liquidity > 50000 THEN 15
    ELSE IF liquidity > 10000 THEN 20
    ELSE IF liquidity > 1000 THEN 50
    ELSE 100

\* slippage rate (1e-4) from liquidity (thousands): liquidity / 1e6 against 100, 50, 10, 1
calculateSlippageFromLiquidity(liquidity) ==
    IF liquidity >= 100000 THEN 10
    ELSE IF liquidity >= 50000 THEN 15
    ELSE IF liquidity >= 10000 THEN 20
    ELSE IF liquidity >= 1000 THEN 50
    ELSE 100

\* PoolUpdate -> DEXPrice (calculateArbitrageOpportunity, the two conversions)
ToDexPrice(update) ==
    [dex |-> update.dex, price |-> update.price, liquidity |-> update.liquidity,
     timestamp |-> update.timestamp, poolAddress |-> update.pool,
     slippage |-> calculateSlippageFromLiquidity(update.liquidity)]

\* 0.000005 SOL * 2 transactions * multiplier * 85 USD, in micro units
calculateGasEstimate(h) == (5 * 2 * getNetworkCongestionMultiplier(h) * 85) \div 10

\* rate (1e-4) of a price (whole units), in micro units
RateOf(price, rate) == price * rate * 100

\* the eight terms of calculateTotalCosts, in micro units
CostComponents(buyDex, sellDex, h) ==
    [swapFeeBuy |-> RateOf(buyDex.price, getDexFeeRate(buyDex.dex)),
     swapFeeSell |-> RateOf(sellDex.price, getDexFeeRate(sellDex.dex)),
     gasCost |-> calculateGasEstimate(h),
     slippageBuy |-> RateOf(buyDex.price, buyDex.slippage),
     slippageSell |-> RateOf(sellDex.price, sellDex.slippage),
     protocolFeeBuy |-> RateOf(buyDex.price, 1),
     protocolFeeSell |-> RateOf(sellDex.price, 1),
     mevProtection |-> 200]

\* calculateTotalCosts raises: price.mul(rate) makes a Decimal of the rate, and the
\* Decimal constructor throws on anything but a number, a string or a Decimal
TotalCostsRaise(buyDex, sellDex) ==
    ~FeeRateIsNumber(buyDex.dex) \/ ~FeeRateIsNumber(sellDex.dex)

calculateTotalCosts(buyDex, sellDex, h) ==
    LET swapFeeBuy == RateOf(buyDex.price, getDexFeeRate(buyDex.dex))
        swapFeeSell == RateOf(sellDex.price, getDexFeeRate(sellDex.dex))
        gasCost == calculateGasEstimate(h)
        slippageBuy == RateOf(buyDex.price, buyDex.slippage)
        slippageSell == RateOf(sellDex.price, sellDex.slippage)
        protocolFeeBuy == RateOf(buyDex.price, 1)
        protocolFeeSell == RateOf(sellDex.price, 1)
        mevProtection == 200
    IN  swapFeeBuy + swapFeeSell + gasCost + slippageBuy + slippageSell
          + protocolFeeBuy + protocolFeeSell + mevProtection

calculateTotalFees(buyDex, sellDex) ==
    RateOf(buyDex.price, getDexFeeRate(buyDex.dex))
      + RateOf(sellDex.price, getDexFeeRate(sellDex.dex))

\* fixed-point product of two JavaScript numbers (1e-4 units)
MulN(a, b) == (a * b) \div 10000

calculateExecutionProbability(buyDex, sellDex, t) ==
    LET minLiquidity == Min(buyDex.liquidity, sellDex.liquidity)
        p0 == 8500
        p1 == IF minLiquidity < 100 THEN MulN(p0, 6000)
              ELSE IF minLiquidity < 500 THEN MulN(p0, 7500)
              ELSE IF minLiquidity < 1000 THEN MulN(p0, 9000)
              ELSE IF minLiquidity >= 5000 THEN MulN(p0, 11000)
              ELSE p0
        totalSlippage == buyDex.slippage + sellDex.slippage
        p2 == IF totalSlippage > 100 THEN MulN(p1, 7000)
              ELSE IF totalSlippage > 50 THEN MulN(p1, 8500)
              ELSE p1
        maxAge == Max(AgeMs(t - buyDex.timestamp), AgeMs(t - sellDex.timestamp))
        p3 == IF maxAge > 10000 THEN MulN(p2, 8000)
              ELSE IF maxAge > 5000 THEN MulN(p2, 9000)
              ELSE p2
        p4 == MulN(p3, getDexReliabilityFactor(buyDex.dex))
        p5 == MulN(p4, getDexReliabilityFactor(sellDex.dex))
    IN  Min(p5, 10000)

\* Decimal.max(a, b).div(Decimal.min(a, b)).gt(k): x/0 is Infinity, 0/0 is NaN
RatioGt(hi, lo, k) ==
    IF lo = 0 THEN hi > 0 ELSE hi > k * lo

\* the liquidity score without its final Math.min(..., 1.0)
calculateLiquidityScoreUnclamped(buyDex, sellDex) ==
    LET sum == buyDex.liquidity + sellDex.liquidity
        hi == Max(buyDex.liquidity, sellDex.liquidity)
        lo == Min(buyDex.liquidity, sellDex.liquidity)
        balancePenalty == IF RatioGt(hi, lo, 5) THEN 7000
                          ELSE IF RatioGt(hi, lo, 3) THEN 8500
                          ELSE IF RatioGt(hi, lo, 2) THEN 9500
                          ELSE 10000
    IN  MulN(sum \div 2, balancePenalty)

calculateLiquidityScore(buyDex, sellDex) ==
    LET sum == buyDex.liquidity + sellDex.liquidity
        \* avgLiquidity / 10,000,000 as a number (1e-4 units): sum/2 thousands / 10000
        liquidityScore == sum \div 2
        hi == Max(buyDex.liquidity, sellDex.liquidity)
        lo == Min(buyDex.liquidity, sellDex.liquidity)
        balancePenalty == IF RatioGt(hi, lo, 5) THEN 7000
                          ELSE IF RatioGt(hi, lo, 3) THEN 8500
                          ELSE IF RatioGt(hi, lo, 2) THEN 9500
                          ELSE 10000
    IN  Min(MulN(liquidityScore, balancePenalty), 10000)

\* trade sizes in whole currency units; liquidity is in thousands
calculateTradeSizeLimits(buyDex, sellDex) ==
    LET minLiquidity == Min(buyDex.liquidity, sellDex.liquidity)
    IN  [minimum |-> Max(1000, minLiquidity), maximum |-> minLiquidity * 50]


\* A percentage kept exactly: amount (micro units) over a price (whole units), times 100.
\* Decimal division by zero gives Infinity (or NaN for 0/0), never an exception.
Pct(amount, price) == [num |-> amount, den |-> price]

\* pct.gte(threshold), threshold in tenths of a percent
PctGte(pct, threshold) ==
    IF pct.den = 0 THEN pct.num > 0
    ELSE pct.num >= threshold * pct.den * 1000

PctEq(p, q) == p.num * q.den = q.num * p.den

\* `${buyPool}.../${sellPool}...`; the modelled addresses are shorter than 8 characters
PairLabel(buyPool, sellPool) == buyPool \o ".../" \o sellPool \o "..."

formatTokenPair(buyDex, sellDex) == PairLabel(buyDex.poolAddress, sellDex.poolAddress)

\* calculateRealArbitrage with the percentage taken from the net profit
calculateRealArbitrageNet(dexA, dexB, t, h) ==
    LET buyDex == IF dexA.price < dexB.price THEN dexA ELSE dexB
        sellDex == IF dexA.price < dexB.price THEN dexB ELSE dexA
        priceDiff == Micro(sellDex.price - buyDex.price)
        totalCosts == calculateTotalCosts(buyDex, sellDex, h)
        netProfit == priceDiff - totalCosts
        executionProbability == calculateExecutionProbability(buyDex, sellDex, t)
        liquidityScore == calculateLiquidityScore(buyDex, sellDex)
        tradeSizeLimits == calculateTradeSizeLimits(buyDex, sellDex)
    IN  IF netProfit <= 0 THEN <<>>
        ELSE << [pair |-> formatTokenPair(buyDex, sellDex),
                 buyDex |-> buyDex.dex,
                 sellDex |-> sellDex.dex,
                 buyPrice |-> buyDex.price,
                 sellPrice |-> sellDex.price,
                 profitPercentage |-> Pct(netProfit, buyDex.price),
                 liquidityScore |-> liquidityScore,
                 gasEstimate |-> calculateGasEstimate(h),
                 netProfit |-> netProfit,
                 executionProbability |-> executionProbability,
                 slippageImpact |-> buyDex.slippage + sellDex.slippage,
                 totalFees |-> calculateTotalFees(buyDex, sellDex),
                 minimumTradeSize |-> tradeSizeLimits.minimum,
                 maximumTradeSize |-> tradeSizeLimits.maximum,
                 confidence |-> MulN(executionProbability, liquidityScore),
                 timestamp |-> t] >>

\* calculateRealArbitrage: <<>> stands for null, <<opp>> for an opportunity
calculateRealArbitrage(dexA, dexB, t, h) ==
    LET buyDex == IF dexA.price < dexB.price THEN dexA ELSE dexB
        sellDex == IF dexA.price < dexB.price THEN dexB ELSE dexA
        priceDiff == Micro(sellDex.price - buyDex.price)
        profitPercentage == Pct(priceDiff, buyDex.price)
        totalCosts == calculateTotalCosts(buyDex, sellDex, h)
        netProfit == priceDiff - totalCosts
        executionProbability == calculateExecutionProbability(buyDex, sellDex, t)
        liquidityScore == calculateLiquidityScore(buyDex, sellDex)
        tradeSizeLimits == calculateTradeSizeLimits(buyDex, sellDex)
    IN  IF netProfit <= 0 THEN <<>>
        ELSE << [pair |-> formatTokenPair(buyDex, sellDex),
                 buyDex |-> buyDex.dex,
                 sellDex |-> sellDex.dex,
                 buyPrice |-> buyDex.price,
                 sellPrice |-> sellDex.price,
                 profitPercentage |-> profitPercentage,
                 liquidityScore |-> liquidityScore,
                 gasEstimate |-> calculateGasEstimate(h),
                 netProfit |-> netProfit,
                 executionProbability |-> executionProbability,
                 slippageImpact |-> buyDex.slippage + sellDex.slippage,
                 totalFees |-> calculateTotalFees(buyDex, sellDex),
                 minimumTradeSize |-> tradeSizeLimits.minimum,
                 maximumTradeSize |-> tradeSizeLimits.maximum,
                 confidence |-> MulN(executionProbability, liquidityScore),
                 timestamp |-> t] >>

\* calculateArbitrageOpportunity: the conversions and calculateRealArbitrage run inside
\* try, and the catch returns null; calculateRealArbitrage calls calculateTotalCosts
\* before its first return
calculateArbitrageOpportunity(priceA, priceB, t, h) ==
    IF TotalCostsRaise(ToDexPrice(priceA), ToDexPrice(priceB)) THEN <<>>
    ELSE calculateRealArbitrage(ToDexPrice(priceA), ToDexPrice(priceB), t, h)

\* the loop body without the minimum-profit filter
EvaluatePairNoThreshold(priceA, priceB, t, h, threshold) ==
    IF priceA.dex = priceB.dex THEN <<>>
    ELSE calculateArbitrageOpportunity(priceA, priceB, t, h)

\* the loop body without the same-venue skip
EvaluatePairAnyVenue(priceA, priceB, t, h, threshold) ==
    LET opportunity == calculateArbitrageOpportunity(priceA, priceB, t, h)
    IN  IF opportunity # <<>> /\ PctGte(opportunity[1].profitPercentage, threshold)
        THEN opportunity
        ELSE <<>>

\* the body of the two nested loops for one pair (i, j)
EvaluatePair(priceA, priceB, t, h, threshold) ==
    IF priceA.dex = priceB.dex THEN <<>>
    ELSE LET opportunity == calculateArbitrageOpportunity(priceA, priceB, t, h)
         IN  IF opportunity # <<>> /\ PctGte(opportunity[1].profitPercentage, threshold)
             THEN opportunity
             ELSE <<>>

RECURSIVE ScanFrom(_, _, _, _, _, _)
\* the loops for (i, j), j > i, and every later pair, in loop order
ScanFrom(prices, i, j, t, h, threshold) ==
    IF i > Len(prices) THEN <<>>
    ELSE IF j > Len(prices) THEN ScanFrom(prices, i + 1, i + 2, t, h, threshold)
    ELSE EvaluatePair(prices[i], prices[j], t, h, threshold)
           \o ScanFrom(prices, i, j + 1, t, h, threshold)

\* checkArbitrageOpportunities with the exception of a pair left uncaught: it leaves
\* the loops before anything is emitted
checkArbitrageOpportunitiesUncaught(cache, t, h, threshold) ==
    IF Len(cache) < 2 THEN <<>>
    ELSE IF \E i, j \in 1..Len(cache) :
               /\ i < j
               /\ cache[i].dex # cache[j].dex
               /\ TotalCostsRaise(ToDexPrice(cache[i]), ToDexPrice(cache[j]))
    THEN <<>>
    ELSE ScanFrom(cache, 1, 2, t, h, threshold)

\* checkArbitrageOpportunities: the opportunities emitted, in order
checkArbitrageOpportunities(cache, t, h, threshold) ==
    IF Len(cache) < 2 THEN <<>>
    ELSE ScanFrom(cache, 1, 2, t, h, threshold)

Event(type, data) == [type |-> type, data |-> data]

RECURSIVE OpportunityEvents(_)
OpportunityEvents(opps) ==
    IF opps = <<>> THEN <<>>
    ELSE <<Event("arbitrageOpportunity", Head(opps))>> \o OpportunityEvents(Tail(opps))

\* a cache that keeps the entry with the newer timestamp
CacheSetNewest(cache, update) ==
    IF \E i \in 1..Len(cache) : CacheKey(cache[i]) = CacheKey(update)
    THEN [i \in 1..Len(cache) |->
            IF CacheKey(cache[i]) = CacheKey(update) /\ update.timestamp >= cache[i].timestamp
            THEN update ELSE cache[i]]
    ELSE Append(cache, update)

\* Map.set: an existing key keeps its place, a new key goes last
CacheSet(cache, update) ==
    IF \E i \in 1..Len(cache) : CacheKey(cache[i]) = CacheKey(update)
    THEN [i \in 1..Len(cache) |->
            IF CacheKey(cache[i]) = CacheKey(update) THEN update ELSE cache[i]]
    ELSE Append(cache, update)


----------------------------------------------------------------------------
(* ArbitrageScanner: operations *)

Observe(op, threw, events) ==
    /\ lastOp' = op
    /\ args' = <<>>
    /\ raised' = threw
    /\ out' = events
    /\ inner' = <<>>
    /\ returned' = <<>>

\* start(), up to the first await
ScannerStart ==
    /\ IF scIsRunning
       THEN UNCHANGED scannerVars
       ELSE /\ scStarting < MaxStarting
            /\ scIsRunning' = TRUE
            /\ scStarting' = scStarting + 1
            /\ UNCHANGED <<priceCache, scanInterval, scTimers, wsSubscribed, minProfitThreshold>>
    /\ Observe("scanner.start", FALSE, <<>>)
    /\ UNCHANGED <<envVars, coordinatorVars>>

\* start(), after connect() and subscribeToAllPools() settle
ScannerStartSettle(ok) ==
    /\ scStarting > 0
    /\ scStarting' = scStarting - 1
    /\ IF ok
       THEN /\ scTimers < MaxTimers
            /\ wsSubscribed' = TRUE
            /\ scanInterval' = TRUE
            /\ scTimers' = scTimers + 1
            /\ UNCHANGED scIsRunning
            /\ Observe("scanner.start.settled", FALSE,
                       <<Event("connected", <<>>), Event("started", <<>>)>>)
       ELSE /\ scIsRunning' = FALSE
            /\ UNCHANGED <<wsSubscribed, scanInterval, scTimers>>
            /\ Observe("scanner.start.settled", TRUE, <<Event("error", <<>>)>>)
    /\ UNCHANGED <<priceCache, minProfitThreshold, envVars, coordinatorVars>>

ScannerStop ==
    /\ IF ~scIsRunning
       THEN /\ UNCHANGED scannerVars
            /\ Observe("scanner.stop", FALSE, <<>>)
       ELSE /\ scIsRunning' = FALSE
            /\ scanInterval' = FALSE
            /\ scTimers' = IF scanInterval THEN scTimers - 1 ELSE scTimers
            /\ wsSubscribed' = FALSE
            /\ priceCache' = <<>>
            /\ UNCHANGED <<scStarting, minProfitThreshold>>
            /\ Observe("scanner.stop", FALSE, <<Event("stopped", <<>>)>>)
    /\ UNCHANGED <<envVars, coordinatorVars>>

\* handlePoolUpdate emitting only the opportunities the update takes part in
handlePoolUpdateOnlyNew(update) ==
    /\ priceCache' = CacheSet(priceCache, update)
    /\ Observe("handlePoolUpdate", FALSE,
               <<Event("priceUpdate", update)>>
                 \o SelectSeq(OpportunityEvents(
                                checkArbitrageOpportunities(priceCache', now, hour,
                                                            minProfitThreshold)),
                              LAMBDA e : e.data.pair \in
                                  {PairLabel(update.pool, q) : q \in Pools}
                                    \cup {PairLabel(q, update.pool) : q \in Pools}))
    /\ UNCHANGED <<scIsRunning, scanInterval, scTimers, scStarting, wsSubscribed,
                   minProfitThreshold, envVars, coordinatorVars>>

\* handlePoolUpdate with the scan run before the cache is written
handlePoolUpdateScanFirst(update) ==
    /\ priceCache' = CacheSet(priceCache, update)
    /\ Observe("handlePoolUpdate", FALSE,
               <<Event("priceUpdate", update)>>
                 \o OpportunityEvents(
                      checkArbitrageOpportunities(priceCache, now, hour, minProfitThreshold)))
    /\ UNCHANGED <<scIsRunning, scanInterval, scTimers, scStarting, wsSubscribed,
                   minProfitThreshold, envVars, coordinatorVars>>

\* handlePoolUpdate(update): priceCache.set, emit('priceUpdate'), then
\* checkArbitrageOpportunities(), all synchronous
handlePoolUpdate(update) ==
    /\ priceCache' = CacheSet(priceCache, update)
    /\ Observe("handlePoolUpdate", FALSE,
               <<Event("priceUpdate", update)>>
                 \o OpportunityEvents(
                      checkArbitrageOpportunities(priceCache', now, hour, minProfitThreshold)))
    /\ UNCHANGED <<scIsRunning, scanInterval, scTimers, scStarting, wsSubscribed,
                   minProfitThreshold, envVars, coordinatorVars>>

\* the updates the feed may deliver now
UpdatesOf(prices, liquidities, stamps) ==
    {[dex |-> d, pool |-> p, price |-> x, liquidity |-> l, timestamp |-> s] :
        d \in Dexes, p \in Pools, x \in prices, l \in liquidities, s \in stamps}

PoolUpdateArrives(updates) ==
    \E update \in updates :
        /\ wsSubscribed
        /\ update.pool \in PoolsOf(update.dex)
        /\ handlePoolUpdate(update)

\* the setInterval callback of startPeriodicScanning
PeriodicScan ==
    /\ scTimers > 0
    /\ Observe("periodicScan", FALSE,
               OpportunityEvents(
                 checkArbitrageOpportunities(priceCache, now, hour, minProfitThreshold)))
    /\ UNCHANGED <<scannerVars, envVars, coordinatorVars>>

Tick ==
    /\ now < MaxTime
    /\ now' = now + 1
    /\ Observe("tick", FALSE, <<>>)
    /\ UNCHANGED <<hour, feeds, clientVars, scannerVars, coordinatorVars>>

AdvanceHour ==
    /\ \E h \in Hours \ {hour} : hour' = h
    /\ Observe("hour", FALSE, <<>>)
    /\ UNCHANGED <<now, feeds, clientVars, scannerVars, coordinatorVars>>


----------------------------------------------------------------------------
(* Initial state: every object as its constructor leaves it *)

\* the listener registry of a new Connection and the fields of a new
\* SolanaWebSocketClient
ClientInit ==
    /\ pmListeners = <<>>
    /\ pmSubscriptionIds = EmptyMap
    /\ sockets = <<>>
    /\ ws = 0
    /\ wsIsConnecting = FALSE
    /\ reconnectAttempts = 0
    /\ reconnectTimers = 0
    /\ heartbeatInterval = FALSE
    /\ subscriptions = <<>>
    /\ wsClock = 0
    /\ wsCalls = <<>>

PythFeeds == {"SOL", "USDC", "USDT"}
SwitchboardFeeds == {"SOL", "USDC"}
\* pool addresses handed to the coordinator: a configured pool and a string that is
\* no base58 public key
Addresses == {"58oQ", "not-base58"}
ValidAddress(pool) == pool # "not-base58"
PoolKeys(pools) == {"pool:" \o p : p \in pools}
PythKeys == {"pyth:" \o f : f \in PythFeeds}
SwitchboardKeys == {"switchboard:" \o f : f \in SwitchboardFeeds}
ListenerKeys == PoolKeys(Addresses) \cup PythKeys \cup SwitchboardKeys

Init ==
    /\ priceCache = <<>>
    /\ scIsRunning = FALSE
    /\ scanInterval = FALSE
    /\ scTimers = 0
    /\ scStarting = 0
    /\ wsSubscribed = FALSE
    /\ minProfitThreshold \in Thresholds
    /\ now = 0
    /\ hour \in Hours
    /\ feeds = NoFeeds
    /\ ClientInit
    /\ mmIsInitialized = FALSE
    /\ mmIsRunning = FALSE
    /\ mmMonitoredPools = {}
    /\ pending = <<>>
    /\ eventStats = EmptyMap
    /\ totalEvents = 0
    /\ pmIsMonitoring = FALSE
    /\ pmHealthCheckInterval = FALSE
    /\ pmSubscriptions = {}
    /\ pmMonitoredPools = EmptyMap
    /\ pythConnected = FALSE
    /\ switchboardConnected = FALSE
    /\ ocSubscriptions = {}
    /\ ocPriceCache = EmptyMap
    /\ ocMultiPriceCache = EmptyMap
    /\ lmIsMonitoring = FALSE
    /\ lmMonitoringInterval = FALSE
    /\ liquidityHistory = EmptyMap
    /\ liquidityThresholds = EmptyMap
    /\ activeAlerts = EmptyMap
    /\ listeners = [k \in ListenerKeys |-> 0]
    /\ lastOp = "constructor"
    /\ args = <<>>
    /\ raised = FALSE
    /\ out = <<>>
    /\ inner = <<>>
    /\ returned = <<>>

----------------------------------------------------------------------------------------------------------------------------------------------------
(* Connection: account-change listeners *)

\* connection.onAccountChange for every key of keys
AddListeners(l, keys) == [k \in DOMAIN l |-> IF k \in keys THEN l[k] + 1 ELSE l[k]]

\* connection.removeAccountChangeListener for the subscription held under every key of keys
RemoveListeners(l, keys) == [k \in DOMAIN l |-> IF k \in keys THEN l[k] - 1 ELSE l[k]]

----------------------------------------------------------------------------
(* MonitoringManager and its components: operations *)

Call(op, pool, stage) == [op |-> op, pool |-> pool, stage |-> stage]

RemoveAt(seq, i) == SubSeq(seq, 1, i - 1) \o SubSeq(seq, i + 1, Len(seq))

\* initialize(), up to await Promise.allSettled([connectToPyth(), connectToSwitchboard()])
Initialize ==
    /\ IF mmIsInitialized
       THEN UNCHANGED pending
       ELSE /\ Len(pending) < MaxPending
            /\ pending' = Append(pending, Call("initialize", "", "connect"))
    /\ Observe("initialize", FALSE, <<>>)
    /\ UNCHANGED <<mmIsInitialized, mmIsRunning, mmMonitoredPools, statsVars, poolMonitorVars,
                   oracleVars, liquidityVars, listeners, scannerVars, envVars>>

\* the events the coordinator relays while the oracle client connects
ConnectEvents(pythOk, switchboardOk) ==
    (IF pythOk THEN <<Event("oracleConnected", "pyth")>> ELSE <<>>)
      \o (IF switchboardOk THEN <<Event("oracleConnected", "switchboard")>> ELSE <<>>)

\* initialize(), from the settling of the two connection attempts to its return;
\* the call that awaited it resumes
InitializeSettle(i, pythOk, switchboardOk) ==
    /\ i \in DOMAIN pending
    /\ pending[i].stage = "connect"
    /\ LET call == pending[i]
           connected == (IF pythOk THEN PythKeys ELSE {})
                          \cup (IF switchboardOk THEN SwitchboardKeys ELSE {})
       IN  \* connectToPyth, connectToSwitchboard
           /\ ocSubscriptions' = ocSubscriptions \cup connected
           /\ listeners' = AddListeners(listeners, connected)
           /\ pythConnected' = (pythConnected \/ pythOk)
           /\ switchboardConnected' = (switchboardConnected \/ switchboardOk)
           \* poolMonitor.startMonitoring()
           /\ pmIsMonitoring' = TRUE
           /\ pmHealthCheckInterval' = TRUE
           \* liquidityMonitor.startMonitoring(30000)
           /\ lmIsMonitoring' = TRUE
           /\ lmMonitoringInterval' = TRUE
           /\ mmIsInitialized' = TRUE
           /\ pending' = IF call.op = "startPoolMonitoring"
                         THEN [pending EXCEPT ![i].stage = "subscribe"]
                         ELSE RemoveAt(pending, i)
           /\ Observe("initialize.settled", FALSE,
                      ConnectEvents(pythOk, switchboardOk)
                        \o <<Event("initialized", <<>>)>>
                        \o (IF call.op = "startAllMonitoring"
                            THEN <<Event("monitoringStarted", <<>>)>> ELSE <<>>))
    /\ UNCHANGED <<mmIsRunning, mmMonitoredPools, statsVars, pmSubscriptions,
                   pmMonitoredPools, ocPriceCache, ocMultiPriceCache, liquidityData,
                   scannerVars, envVars>>

\* startPoolMonitoring(poolAddress, dex), up to its first await
StartPoolMonitoring(pool) ==
    /\ Len(pending) < MaxPending
    /\ pending' = Append(pending, Call("startPoolMonitoring", pool,
                                       IF mmIsInitialized THEN "subscribe" ELSE "connect"))
    /\ Observe("startPoolMonitoring", FALSE, <<>>)
    /\ UNCHANGED <<mmIsInitialized, mmIsRunning, mmMonitoredPools, statsVars, poolMonitorVars,
                   oracleVars, liquidityVars, listeners, scannerVars, envVars>>

\* startPoolMonitoring, from poolMonitor.subscribeToPool to its return;
\* fetched tells whether fetchPoolState returned a snapshot, and snapshot is what it
\* returned
StartPoolMonitoringSettle(i, fetched, snapshot) ==
    /\ i \in DOMAIN pending
    /\ pending[i].stage = "subscribe"
    /\ pending' = RemoveAt(pending, i)
    /\ LET pool == pending[i].pool
       IN  IF ValidAddress(pool)
           THEN /\ pmSubscriptions' = pmSubscriptions \cup {pool}
                \* unsubscribeFromPool drops the old snapshot of a subscribed pool
                /\ pmMonitoredPools' =
                      IF fetched THEN MapSet(pmMonitoredPools, pool, snapshot)
                      ELSE IF pool \in pmSubscriptions
                           THEN MapDelete(pmMonitoredPools, {pool})
                           ELSE pmMonitoredPools
                /\ listeners' = IF pool \in pmSubscriptions THEN listeners
                                ELSE AddListeners(listeners, PoolKeys({pool}))
                \* monitorPoolLiquidity, then setLiquidityThreshold(pool, 100000)
                /\ liquidityHistory' = IF pool \in DOMAIN liquidityHistory THEN liquidityHistory
                                       ELSE MapSet(liquidityHistory, pool, <<>>)
                /\ liquidityThresholds' = MapSet(liquidityThresholds, pool, DefaultThreshold)
                /\ mmMonitoredPools' = mmMonitoredPools \cup {pool}
                /\ Observe("startPoolMonitoring.settled", FALSE,
                           <<Event("poolMonitoringStarted", pool)>>)
           ELSE /\ UNCHANGED <<pmSubscriptions, pmMonitoredPools, listeners,
                               liquidityHistory, liquidityThresholds,
                               mmMonitoredPools>>
                /\ Observe("startPoolMonitoring.settled", TRUE, <<>>)
    /\ UNCHANGED <<mmIsInitialized, mmIsRunning, statsVars, pmIsMonitoring,
                   pmHealthCheckInterval, oracleVars, lmIsMonitoring, lmMonitoringInterval,
                   activeAlerts, scannerVars, envVars>>

StopPoolMonitoring(pool) ==
    /\ pmSubscriptions' = pmSubscriptions \ {pool}
    /\ pmMonitoredPools' = IF pool \in pmSubscriptions THEN MapDelete(pmMonitoredPools, {pool})
                           ELSE pmMonitoredPools
    /\ listeners' = IF pool \in pmSubscriptions
                    THEN RemoveListeners(listeners, PoolKeys({pool}))
                    ELSE listeners
    /\ mmMonitoredPools' = mmMonitoredPools \ {pool}
    /\ Observe("stopPoolMonitoring", FALSE, <<Event("poolMonitoringStopped", pool)>>)
    /\ UNCHANGED <<mmIsInitialized, mmIsRunning, pending, statsVars, pmIsMonitoring,
                   pmHealthCheckInterval, oracleVars, liquidityVars, scannerVars, envVars>>

StartAllMonitoring ==
    /\ IF mmIsRunning
       THEN /\ UNCHANGED <<mmIsRunning, pending>>
            /\ Observe("startAllMonitoring", FALSE, <<>>)
       ELSE /\ mmIsRunning' = TRUE
            /\ IF mmIsInitialized
               THEN /\ UNCHANGED pending
                    /\ Observe("startAllMonitoring", FALSE, <<Event("monitoringStarted", <<>>)>>)
               ELSE /\ Len(pending) < MaxPending
                    /\ pending' = Append(pending, Call("startAllMonitoring", "", "connect"))
                    /\ Observe("startAllMonitoring", FALSE, <<>>)
    /\ UNCHANGED <<mmIsInitialized, mmMonitoredPools, statsVars, poolMonitorVars,
                   oracleVars, liquidityVars, listeners, scannerVars, envVars>>

\* stopAllMonitoring() without its isRunning guard
StopAllMonitoringUnguarded ==
    /\ mmIsRunning' = FALSE
    /\ pmIsMonitoring' = FALSE
    /\ pmHealthCheckInterval' = IF pmIsMonitoring THEN FALSE ELSE pmHealthCheckInterval
    /\ pmSubscriptions' = IF pmIsMonitoring THEN {} ELSE pmSubscriptions
    /\ pmMonitoredPools' = IF pmIsMonitoring
                           THEN MapDelete(pmMonitoredPools, pmSubscriptions)
                           ELSE pmMonitoredPools
    /\ listeners' = RemoveListeners(listeners,
                       ocSubscriptions
                         \cup (IF pmIsMonitoring THEN PoolKeys(pmSubscriptions) ELSE {}))
    /\ ocSubscriptions' = {}
    /\ ocPriceCache' = EmptyMap
    /\ ocMultiPriceCache' = EmptyMap
    /\ pythConnected' = FALSE
    /\ switchboardConnected' = FALSE
    /\ lmIsMonitoring' = FALSE
    /\ lmMonitoringInterval' = IF lmIsMonitoring THEN FALSE ELSE lmMonitoringInterval
    /\ mmMonitoredPools' = {}
    /\ UNCHANGED <<mmIsInitialized, pending, statsVars, liquidityData>>
    /\ Observe("stopAllMonitoring", FALSE, <<Event("monitoringStopped", <<>>)>>)
    /\ UNCHANGED <<scannerVars, envVars>>

StopAllMonitoring ==
    /\ IF ~mmIsRunning
       THEN /\ UNCHANGED <<coordinatorVars>>
            /\ Observe("stopAllMonitoring", FALSE, <<>>)
       ELSE /\ mmIsRunning' = FALSE
            \* poolMonitor.stopMonitoring(): nothing when the monitor is not running
            /\ pmIsMonitoring' = FALSE
            /\ pmHealthCheckInterval' = IF pmIsMonitoring THEN FALSE ELSE pmHealthCheckInterval
            /\ pmSubscriptions' = IF pmIsMonitoring THEN {} ELSE pmSubscriptions
            /\ pmMonitoredPools' = IF pmIsMonitoring
                                   THEN MapDelete(pmMonitoredPools, pmSubscriptions)
                                   ELSE pmMonitoredPools
            \* oracleClient.disconnect()
            /\ listeners' = RemoveListeners(listeners,
                               ocSubscriptions
                                 \cup (IF pmIsMonitoring THEN PoolKeys(pmSubscriptions) ELSE {}))
            /\ ocSubscriptions' = {}
            /\ ocPriceCache' = EmptyMap
            /\ ocMultiPriceCache' = EmptyMap
            /\ pythConnected' = FALSE
            /\ switchboardConnected' = FALSE
            \* liquidityMonitor.stopMonitoring()
            /\ lmIsMonitoring' = FALSE
            /\ lmMonitoringInterval' = IF lmIsMonitoring THEN FALSE ELSE lmMonitoringInterval
            /\ mmMonitoredPools' = {}
            /\ UNCHANGED <<mmIsInitialized, pending, statsVars, liquidityData>>
            /\ Observe("stopAllMonitoring", FALSE, <<Event("monitoringStopped", <<>>)>>)
    /\ UNCHANGED <<scannerVars, envVars>>

----------------------------------------------------------------------------
(* LiquidityMonitor: computations over a pool's history.                    *)
(* A JavaScript number is kept exactly, as a fraction num/den with          *)
(* den >= 0: x/0 is Infinity, 0/0 is NaN, and NaN compares false with       *)
(* everything.                                                              *)

historyLimit == 2000
trendAnalysisWindow == 100

Abs(x) == IF x < 0 THEN -x ELSE x

Num(n, d) == [num |-> n, den |-> d]
IsNaN(x) == x.num = 0 /\ x.den = 0
NumGt(x, y) == ~IsNaN(x) /\ ~IsNaN(y) /\ x.num * y.den > y.num * x.den
NumLt(x, y) == NumGt(y, x)
NumGte(x, y) == ~IsNaN(x) /\ ~IsNaN(y) /\ x.num * y.den >= y.num * x.den
\* Math.max and Math.min: NaN when an argument is NaN
MathMax(x, y) == IF IsNaN(x) THEN x ELSE IF IsNaN(y) THEN y ELSE IF NumGt(y, x) THEN y ELSE x
MathMin(x, y) == IF IsNaN(x) THEN x ELSE IF IsNaN(y) THEN y ELSE IF NumLt(y, x) THEN y ELSE x

\* LiquidityDataPoint; volume and utilization are never read back
DataPoint(timestamp, liquidity) == [timestamp |-> timestamp, liquidity |-> liquidity]

\* Map.get(key) || []
GetOrEmpty(m, key) == IF key \in DOMAIN m THEN m[key] ELSE <<>>

\* history.slice(-k)
SliceLast(history, k) == SubSeq(history, Max(1, Len(history) - k + 1), Len(history))

\* history.push(dataPoint) alone
PushUnbounded(history, dataPoint) == Append(history, dataPoint)

\* history.push(dataPoint), then splice(0, length - historyLimit) when over the limit
PushPoint(history, dataPoint) ==
    LET pushed == Append(history, dataPoint)
    IN  IF Len(pushed) > historyLimit THEN SliceLast(pushed, historyLimit) ELSE pushed

RECURSIVE SumOf(_, _)
\* the sum of f[i] over i in 1..k
SumOf(f, k) == IF k = 0 THEN 0 ELSE SumOf(f, k - 1) + f[k]

\* n * n * n times the population variance of the liquidity values of data
ScaledSquares(data) ==
    LET n == Len(data)
        sumY == SumOf([i \in 1..n |-> data[i].liquidity], n)
    IN  SumOf([i \in 1..n |-> (n * data[i].liquidity - sumY) * (n * data[i].liquidity - sumY)], n)

calculateLiquidityDrop(history) ==
    IF Len(history) < 2 THEN Num(0, 1)
    ELSE LET first == history[1].liquidity
             last == history[Len(history)].liquidity
         IN  IF last >= first THEN Num(0, 1) ELSE Num(first - last, first)

RECURSIVE MaxChangeUpTo(_, _)
\* maxChange after the loop of getMaxLiquidityChange has handled data[2..k]
MaxChangeUpTo(data, k) ==
    IF k < 2 THEN Num(0, 1)
    ELSE MathMax(MaxChangeUpTo(data, k - 1),
                 Num(Abs(data[k].liquidity - data[k - 1].liquidity), data[k - 1].liquidity))

getMaxLiquidityChange(data) ==
    IF Len(data) < 2 THEN Num(0, 1) ELSE MaxChangeUpTo(data, Len(data))

\* zScore > 2 over the last 20 points of the stored history, which already holds
\* dataPoint: |x - mean| / stdDev > 2, squared and cleared of its denominators;
\* a zero stdDev gives NaN for x = mean and Infinity otherwise
detectLiquidityAnomaly(history, dataPoint) ==
    IF Len(history) < 20 THEN FALSE
    ELSE LET recentHistory == SliceLast(history, 20)
             n == Len(recentHistory)
             sum == SumOf([i \in 1..n |-> recentHistory[i].liquidity], n)
             dev == n * dataPoint.liquidity - sum
             squares == ScaledSquares(recentHistory)
         IN  IF squares = 0 THEN dev # 0 ELSE n * dev * dev > 4 * squares

\* LiquidityAlert
Alert(type, severity, pool, currentLiquidity, threshold, timestamp) ==
    [type |-> type, severity |-> severity, poolAddress |-> pool,
     currentLiquidity |-> currentLiquidity, thresholdLiquidity |-> threshold,
     timestamp |-> timestamp]

\* the alerts checkLiquidityAlertsForPool hands to createAlert, in order
checkLiquidityAlertsForPool(pool, dataPoint, histories, thresholds, t) ==
    IF pool \notin DOMAIN thresholds THEN <<>>
    ELSE LET threshold == thresholds[pool]
             currentLiquidity == dataPoint.liquidity
             history == GetOrEmpty(histories, pool)
         IN  (IF currentLiquidity < threshold
              THEN <<Alert("low_liquidity", "high", pool, currentLiquidity, threshold, t)>>
              ELSE <<>>)
             \o (IF Len(history) >= 5
                    /\ NumGt(calculateLiquidityDrop(SliceLast(history, 5)), Num(2, 10))
                 THEN <<Alert("pool_drain", "critical", pool, currentLiquidity, threshold, t)>>
                 ELSE <<>>)
             \o (IF detectLiquidityAnomaly(history, dataPoint)
                 THEN <<Alert("anomaly", "medium", pool, currentLiquidity, threshold, t)>>
                 ELSE <<>>)

\* the alerts generateAlertsForPool returns
generateAlertsForPool(pool, currentData, history, thresholds, t) ==
    IF pool \notin DOMAIN thresholds THEN <<>>
    ELSE IF Len(history) >= 3
            /\ NumGt(getMaxLiquidityChange(SliceLast(history, 3)), Num(15, 100))
         THEN <<Alert("high_impact", "high", pool, currentData.liquidity, thresholds[pool], t)>>
         ELSE <<>>

RECURSIVE AlertsOver(_, _, _, _)
\* checkLiquidityAlerts over the pools of a set, one after the other
AlertsOver(pools, histories, thresholds, t) ==
    IF pools = {} THEN <<>>
    ELSE LET pool == CHOOSE p \in pools : TRUE
             history == histories[pool]
         IN  (IF Len(history) = 0 THEN <<>>
              ELSE generateAlertsForPool(pool, history[Len(history)], history, thresholds, t))
             \o AlertsOver(pools \ {pool}, histories, thresholds, t)

checkLiquidityAlerts(histories, thresholds, t) ==
    AlertsOver(DOMAIN histories, histories, thresholds, t)

RECURSIVE PushAllOncePerType(_, _)
\* an alert log that takes an alert only when it holds none of that type
PushAllOncePerType(alerts, created) ==
    IF created = <<>> THEN alerts
    ELSE LET log == GetOrEmpty(alerts, created[1].poolAddress)
         IN  PushAllOncePerType(
                 IF \E k \in DOMAIN log : log[k].type = created[1].type THEN alerts
                 ELSE MapSet(alerts, created[1].poolAddress, Append(log, created[1])),
                 Tail(created))

RECURSIVE PushAll(_, _)
\* createAlert's poolAlerts.push(alert), for every alert of a sequence
PushAll(alerts, created) ==
    IF created = <<>> THEN alerts
    ELSE PushAll(MapSet(alerts, created[1].poolAddress,
                        Append(GetOrEmpty(alerts, created[1].poolAddress), created[1])),
                 Tail(created))

----------------------------------------------------------------------------
(* MonitoringManager: the handlers that setupEventHandlers puts on the      *)
(* events of the three components                                           *)

\* an event as a component emits it
Raised(component, type, data) == [component |-> component, type |-> type, data |-> data]

\* the handlers with every event of the liquidity monitor counted as an update
TrackedAsUpdate(e) ==
    CASE e.component = "poolMonitor"
           /\ e.type \in {"poolUpdate", "healthAlert", "liquidityAlert"} -> e.type
      [] e.component = "oracleClient" /\ e.type = "oracleUpdate" -> e.type
      [] e.component = "liquidityMonitor"
           /\ e.type \in {"liquidityAlert", "liquidityUpdated"} -> "liquidityUpdate"
      [] OTHER -> ""

\* the counter under which the coordinator's handler counts event e; "" without one
TrackedAs(e) ==
    CASE e.component = "poolMonitor"
           /\ e.type \in {"poolUpdate", "healthAlert", "liquidityAlert"} -> e.type
      [] e.component = "oracleClient" /\ e.type = "oracleUpdate" -> e.type
      [] e.component = "liquidityMonitor" /\ e.type = "liquidityAlert" -> e.type
      [] e.component = "liquidityMonitor" /\ e.type = "liquidityUpdated" -> "liquidityUpdate"
      [] OTHER -> ""

\* what the coordinator's handler for event e emits
RelayOf(e) ==
    CASE e.component = "poolMonitor"
           /\ e.type \in {"poolUpdate", "healthAlert", "liquidityAlert"} ->
             <<Event(e.type, e.data)>>
      [] e.component = "oracleClient" /\ e.type = "oracleUpdate" -> <<Event(e.type, e.data)>>
      [] e.component = "oracleClient" /\ e.type = "pythConnected" ->
             <<Event("oracleConnected", "pyth")>>
      [] e.component = "oracleClient" /\ e.type = "switchboardConnected" ->
             <<Event("oracleConnected", "switchboard")>>
      [] e.component = "liquidityMonitor" /\ e.type = "liquidityAlert" ->
             <<Event(e.type, e.data)>>
      [] OTHER -> <<>>

RECURSIVE RelayAll(_)
RelayAll(events) ==
    IF events = <<>> THEN <<>> ELSE RelayOf(events[1]) \o RelayAll(Tail(events))

\* eventStats.get(eventType) || 0
CountOf(stats, type) == IF type \in DOMAIN stats THEN stats[type] ELSE 0

\* trackEvent(eventType): eventStats after it
trackEvent(stats, eventType) ==
    MapSet(stats, eventType, CountOf(stats, eventType) + 1)

RECURSIVE TrackAll(_, _)
TrackAll(stats, events) ==
    IF events = <<>> THEN stats
    ELSE TrackAll(IF TrackedAs(events[1]) = "" THEN stats
                  ELSE trackEvent(stats, TrackedAs(events[1])),
                  Tail(events))

\* the number of trackEvent calls the events cause
TrackedCount(events) == Cardinality({k \in DOMAIN events : TrackedAs(events[k]) # ""})

\* a handler of a component ran: the events it emitted reach the coordinator's
\* handlers one by one; own is what the coordinator emits itself afterwards
DispatchCall(op, arguments, events, own, value) ==
    /\ lastOp' = op
    /\ args' = arguments
    /\ raised' = FALSE
    /\ inner' = events
    /\ out' = RelayAll(events) \o own
    /\ eventStats' = TrackAll(eventStats, events)
    /\ totalEvents' = totalEvents + TrackedCount(events)
    /\ returned' = value

Dispatch(op, events, own, value) == DispatchCall(op, <<>>, events, own, value)

----------------------------------------------------------------------------
(* PoolStateMonitor: account changes and health checks *)

maxPriceAge == 30000
\* config.liquidityThresholds.critical, in thousands
criticalLiquidity == 25

PoolKey(pool) == "pool:" \o pool

\* detectPoolChanges(oldState, newState); known is FALSE for an undefined oldState
detectPoolChanges(known, oldState, newState) ==
    IF ~known THEN <<"initial_state">>
    ELSE (IF RatioGt(Abs(newState.currentPrice - oldState.currentPrice) * 1000,
                     oldState.currentPrice, 1)
          THEN <<"price_change">> ELSE <<>>)
         \o (IF RatioGt(Abs(newState.totalLiquidity - oldState.totalLiquidity) * 20,
                        oldState.totalLiquidity, 1)
             THEN <<"liquidity_change">> ELSE <<>>)
         \o (IF Abs(newState.healthScore - oldState.healthScore) > 10
             THEN <<"health_change">> ELSE <<>>)

\* the account-change listener of a pool subscription; parsed tells whether
\* parsePoolAccountData returned newState
handlePoolAccountChange(pool, parsed, newState) ==
    /\ listeners[PoolKey(pool)] > 0
    /\ LET known == pool \in DOMAIN pmMonitoredPools
           changes == detectPoolChanges(known,
                                        IF known THEN pmMonitoredPools[pool] ELSE newState,
                                        newState)
       IN  IF parsed
           THEN /\ pmMonitoredPools' = MapSet(pmMonitoredPools, pool, newState)
                /\ Dispatch("handlePoolAccountChange",
                            IF changes # <<>>
                            THEN <<Raised("poolMonitor", "poolUpdate",
                                          [poolAddress |-> pool, newState |-> newState,
                                           changes |-> changes])>>
                            ELSE <<>>,
                            <<>>, <<>>)
           ELSE /\ UNCHANGED pmMonitoredPools
                /\ Dispatch("handlePoolAccountChange", <<>>, <<>>, <<>>)
    /\ UNCHANGED <<mmIsInitialized, mmIsRunning, mmMonitoredPools, pending, pmIsMonitoring,
                   pmHealthCheckInterval, pmSubscriptions, oracleVars, liquidityVars,
                   listeners, scannerVars, envVars>>

\* what performHealthChecks emits for one monitored pool
HealthEvents(pool, state, t) ==
    (IF AgeMs(t - state.timestamp) > maxPriceAge
     THEN <<Raised("poolMonitor", "staleData",
                   [poolAddress |-> pool, age |-> AgeMs(t - state.timestamp)])>>
     ELSE <<>>)
    \o (IF state.healthScore < 50
        THEN <<Raised("poolMonitor", "healthAlert",
                      [poolAddress |-> pool, healthScore |-> state.healthScore])>>
        ELSE <<>>)
    \o (IF state.totalLiquidity < criticalLiquidity
        THEN <<Raised("poolMonitor", "liquidityAlert",
                      [poolAddress |-> pool, liquidity |-> state.totalLiquidity])>>
        ELSE <<>>)

RECURSIVE HealthEventsOver(_, _, _)
HealthEventsOver(pools, states, t) ==
    IF pools = {} THEN <<>>
    ELSE LET pool == CHOOSE p \in pools : TRUE
         IN  HealthEvents(pool, states[pool], t) \o HealthEventsOver(pools \ {pool}, states, t)

\* the setInterval callback of PoolStateMonitor.startMonitoring
performHealthChecks ==
    /\ pmHealthCheckInterval
    /\ Dispatch("performHealthChecks",
                HealthEventsOver(DOMAIN pmMonitoredPools, pmMonitoredPools, now), <<>>, <<>>)
    /\ UNCHANGED <<mmIsInitialized, mmIsRunning, mmMonitoredPools, pending, poolMonitorVars,
                   oracleVars, liquidityVars, listeners, scannerVars, envVars>>

----------------------------------------------------------------------------
(* PriceOracleClient: account changes of a subscribed feed *)

\* handlePythPriceUpdate / handleSwitchboardPriceUpdate; parsed tells whether the
\* account data gave newPrice
handleOraclePriceUpdate(source, feed, parsed, newPrice) ==
    /\ listeners[source \o ":" \o feed] > 0
    /\ IF parsed
       THEN /\ ocPriceCache' = MapSet(ocPriceCache, feed, newPrice)
            /\ Dispatch("handleOraclePriceUpdate",
                        <<Raised("oracleClient", "oracleUpdate",
                                 [tokenMint |-> feed, source |-> source,
                                  newPrice |-> newPrice])>>,
                        <<>>, <<>>)
       ELSE /\ UNCHANGED ocPriceCache
            /\ Dispatch("handleOraclePriceUpdate", <<>>, <<>>, <<>>)
    /\ UNCHANGED <<mmIsInitialized, mmIsRunning, mmMonitoredPools, pending, poolMonitorVars,
                   pythConnected, switchboardConnected, ocSubscriptions, ocMultiPriceCache,
                   liquidityVars,
                   listeners, scannerVars, envVars>>

----------------------------------------------------------------------------
(* LiquidityMonitor: operations *)

\* monitorPoolLiquidity(poolAddress)
monitorPoolLiquidity(pool) ==
    /\ liquidityHistory' = IF pool \in DOMAIN liquidityHistory THEN liquidityHistory
                           ELSE MapSet(liquidityHistory, pool, <<>>)
    /\ liquidityThresholds' = IF pool \in DOMAIN liquidityThresholds THEN liquidityThresholds
                              ELSE MapSet(liquidityThresholds, pool, DefaultThreshold)
    /\ Dispatch("monitorPoolLiquidity",
                <<Raised("liquidityMonitor", "liquidityMonitoringStarted", pool)>>, <<>>, <<>>)
    /\ UNCHANGED <<mmIsInitialized, mmIsRunning, mmMonitoredPools, pending, poolMonitorVars,
                   oracleVars, lmIsMonitoring, lmMonitoringInterval, activeAlerts, listeners,
                   scannerVars, envVars>>

\* setLiquidityThreshold(poolAddress, threshold)
setLiquidityThreshold(pool, threshold) ==
    /\ liquidityThresholds' = MapSet(liquidityThresholds, pool, threshold)
    /\ Dispatch("setLiquidityThreshold",
                <<Raised("liquidityMonitor", "thresholdUpdated",
                         [poolAddress |-> pool, threshold |-> threshold])>>, <<>>, <<>>)
    /\ UNCHANGED <<mmIsInitialized, mmIsRunning, mmMonitoredPools, pending, poolMonitorVars,
                   oracleVars, lmIsMonitoring, lmMonitoringInterval, liquidityHistory,
                   activeAlerts, listeners, scannerVars, envVars>>

\* the events of one updateLiquidityData call: an alert event for every alert
\* created, then liquidityUpdated
UpdateEvents(pool, dataPoint, created) ==
    [k \in DOMAIN created |-> Raised("liquidityMonitor", "liquidityAlert", created[k])]
      \o <<Raised("liquidityMonitor", "liquidityUpdated",
                  [poolAddress |-> pool, dataPoint |-> dataPoint])>>

\* updateLiquidityData(poolAddress, liquidity), liquidity.totalLiquidity in thousands,
\* called by the handler op, which emits own afterwards
RecordLiquidity(op, arguments, pool, totalLiquidity, own) ==
    LET dataPoint == DataPoint(now, totalLiquidity)
        history == PushPoint(GetOrEmpty(liquidityHistory, pool), dataPoint)
        histories == MapSet(liquidityHistory, pool, history)
        created == checkLiquidityAlertsForPool(pool, dataPoint, histories,
                                               liquidityThresholds, now)
    IN  /\ liquidityHistory' = histories
        /\ activeAlerts' = PushAll(activeAlerts, created)
        /\ DispatchCall(op, arguments, UpdateEvents(pool, dataPoint, created), own, <<>>)
        /\ UNCHANGED <<lmIsMonitoring, lmMonitoringInterval, liquidityThresholds>>

UpdateLiquidity(op, pool, totalLiquidity, own) ==
    /\ RecordLiquidity(op, <<>>, pool, totalLiquidity, own)
    /\ UNCHANGED <<mmIsInitialized, mmIsRunning, mmMonitoredPools, pending,
                   poolMonitorVars, oracleVars, listeners, scannerVars, envVars>>

updateLiquidityData(pool, totalLiquidity) ==
    UpdateLiquidity("updateLiquidityData", pool, totalLiquidity, <<>>)

\* the setInterval callback of LiquidityMonitor.startMonitoring: it calls
\* checkLiquidityAlerts() and logs how many alerts came back
liquidityTimer ==
    /\ lmMonitoringInterval
    /\ Dispatch("liquidityTimer", <<>>, <<>>,
                <<checkLiquidityAlerts(liquidityHistory, liquidityThresholds, now)>>)
    /\ UNCHANGED <<mmIsInitialized, mmIsRunning, mmMonitoredPools, pending, poolMonitorVars,
                   oracleVars, liquidityVars, listeners, scannerVars, envVars>>

----------------------------------------------------------------------------
(* PriceOracleClient: readings, consensus and validation                    *)
(* Prices and confidence intervals are whole numbers; ratios are exact      *)
(* fractions.                                                               *)

\* config.deviationThreshold, in percent
deviationThreshold == 5

\* what an oracle account holds
Feed(price, confidence) == [price |-> price, confidence |-> confidence]

\* OraclePrice; exponent and publishSlot are never read back
OraclePrice(tokenMint, source, price, confidence, timestamp) ==
    [tokenMint |-> tokenMint, source |-> source, price |-> price,
     confidence |-> confidence, timestamp |-> timestamp, status |-> "active"]

isPriceValid(price, t) ==
    AgeMs(t - price.timestamp) < maxPriceAge /\ price.status = "active"

\* fetchPythPrice / fetchSwitchboardPrice at time t: no value without a feed address
\* for the token or without account data
fetchPrice(source, tokenMint, t) ==
    IF /\ tokenMint \in (IF source = "pyth" THEN PythFeeds ELSE SwitchboardFeeds)
       /\ feeds[source] # <<>>
    THEN <<OraclePrice(tokenMint, source, feeds[source][1].price,
                       feeds[source][1].confidence, t)>>
    ELSE <<>>

\* getOraclePrice(tokenMint) at time t: the price it returns (none for null) and
\* whether it came from a fetch, which is then cached
getOraclePrice(tokenMint, t) ==
    IF tokenMint \in DOMAIN ocPriceCache /\ isPriceValid(ocPriceCache[tokenMint], t)
    THEN [price |-> <<ocPriceCache[tokenMint]>>, fetched |-> FALSE]
    ELSE IF pythConnected /\ fetchPrice("pyth", tokenMint, t) # <<>>
    THEN [price |-> fetchPrice("pyth", tokenMint, t), fetched |-> TRUE]
    ELSE IF switchboardConnected /\ fetchPrice("switchboard", tokenMint, t) # <<>>
    THEN [price |-> fetchPrice("switchboard", tokenMint, t), fetched |-> TRUE]
    ELSE [price |-> <<>>, fetched |-> FALSE]

\* priceCache after getOraclePrice(tokenMint)
CacheAfter(tokenMint, t) ==
    IF getOraclePrice(tokenMint, t).fetched
    THEN MapSet(ocPriceCache, tokenMint, getOraclePrice(tokenMint, t).price[1])
    ELSE ocPriceCache

RECURSIVE GCD(_, _)
GCD(a, b) == IF b = 0 THEN a ELSE GCD(b, a % b)

\* n / d in lowest terms with d >= 0; n / 0 is an infinity of the sign of n, 0 / 0 NaN
Reduce(n, d) ==
    IF d = 0 THEN Num(IF n > 0 THEN 1 ELSE IF n < 0 THEN -1 ELSE 0, 0)
    ELSE LET g == GCD(Abs(n), Abs(d))
         IN  IF d < 0 THEN Num((-n) \div g, (-d) \div g) ELSE Num(n \div g, d \div g)

\* sum, product, quotient and absolute value of fractions, as IEEE 754 and decimal.js
\* give them on infinities and NaN
NumAdd(x, y) ==
    IF x.den = 0 /\ y.den = 0
    THEN (IF x.num = y.num THEN x ELSE Num(0, 0))
    ELSE Reduce(x.num * y.den + y.num * x.den, x.den * y.den)
NumMul(x, y) == Reduce(x.num * y.num, x.den * y.den)
NumDiv(x, y) == Reduce(x.num * y.den, x.den * y.num)
NumNeg(x) == Num(-x.num, x.den)
NumAbs(x) == Num(Abs(x.num), x.den)
NumEq(x, y) == ~IsNaN(x) /\ ~IsNaN(y) /\ x.num * y.den = y.num * x.den
Whole(n) == Num(n, 1)

\* the weight of a reading: 1 - confidence / price
WeightOf(p) == NumAdd(Whole(1), NumNeg(NumDiv(Whole(p.confidence), Whole(p.price))))

Consensus(price, confidence, agreement) ==
    [price |-> price, confidence |-> confidence, agreement |-> agreement]

\* the weighted path of calculateConsensus, for two readings
WeightedConsensus(prices) ==
    LET w1 == WeightOf(prices[1])
        w2 == WeightOf(prices[2])
        totalWeight == NumAdd(w1, w2)
        weightedSum == NumAdd(NumMul(Whole(prices[1].price), w1),
                              NumMul(Whole(prices[2].price), w2))
        consensusPrice == NumDiv(weightedSum, totalWeight)
        deviation(p) == NumAbs(NumDiv(NumAdd(Whole(p.price), NumNeg(consensusPrice)),
                                      consensusPrice))
        maxDeviation == MathMax(deviation(prices[1]), deviation(prices[2]))
        agreement == MathMax(Whole(0), NumAdd(Whole(1), NumNeg(maxDeviation)))
        avgConfidence == NumDiv(totalWeight, Whole(2))
    IN  Consensus(consensusPrice, NumMul(avgConfidence, agreement), agreement)

\* calculateConsensus with the weight of a single reading given as its agreement
calculateConsensusSwapped(prices) ==
    IF Len(prices) = 0 THEN Consensus(Whole(0), Whole(0), Whole(0))
    ELSE IF Len(prices) = 1
    THEN Consensus(Whole(prices[1].price), Whole(1), WeightOf(prices[1]))
    ELSE WeightedConsensus(prices)

\* calculateConsensus(prices), for up to two readings
calculateConsensus(prices) ==
    IF Len(prices) = 0 THEN Consensus(Whole(0), Whole(0), Whole(0))
    ELSE IF Len(prices) = 1
    THEN Consensus(Whole(prices[1].price), WeightOf(prices[1]), Whole(1))
    ELSE WeightedConsensus(prices)

\* the readings getMultiOraclePrice collects at time t
CollectPrices(tokenMint, t) ==
    (IF pythConnected THEN fetchPrice("pyth", tokenMint, t) ELSE <<>>)
      \o (IF switchboardConnected THEN fetchPrice("switchboard", tokenMint, t) ELSE <<>>)

\* getMultiOraclePrice(tokenMint): the value it returns, none for null
getMultiOraclePrice(tokenMint, t) ==
    IF /\ tokenMint \in DOMAIN ocMultiPriceCache
       /\ AgeMs(t - ocMultiPriceCache[tokenMint].timestamp) < maxPriceAge
    THEN <<ocMultiPriceCache[tokenMint]>>
    ELSE IF CollectPrices(tokenMint, t) = <<>> THEN <<>>
    ELSE <<[tokenMint |-> tokenMint, prices |-> CollectPrices(tokenMint, t),
            consensus |-> calculateConsensus(CollectPrices(tokenMint, t)),
            timestamp |-> t]>>

GetMultiOraclePrice(tokenMint) ==
    /\ ocMultiPriceCache' =
         IF getMultiOraclePrice(tokenMint, now) = <<>> THEN ocMultiPriceCache
         ELSE MapSet(ocMultiPriceCache, tokenMint, getMultiOraclePrice(tokenMint, now)[1])
    /\ Dispatch("getMultiOraclePrice", <<>>, <<>>, getMultiOraclePrice(tokenMint, now))
    /\ UNCHANGED <<mmIsInitialized, mmIsRunning, mmMonitoredPools, pending, poolMonitorVars,
                   pythConnected, switchboardConnected, ocSubscriptions, ocPriceCache,
                   liquidityVars, listeners, scannerVars, envVars>>

\* OracleValidation; reason "" stands for undefined
Validation(isValid, confidence, priceDeviation, staleness, reason) ==
    [isValid |-> isValid, confidence |-> confidence, priceDeviation |-> priceDeviation,
     staleness |-> staleness, reason |-> reason]

\* a result without a reason
InvalidWithoutReason(stalenessMs, reason) ==
    Validation(FALSE, Num(0, 1), Num(0, 1), Num(stalenessMs, 1000), "")

Invalid(stalenessMs, reason) ==
    Validation(FALSE, Num(0, 1), Num(0, 1), Num(stalenessMs, 1000), reason)

\* the test of the deviation against the threshold, with the boundary failing
WithinThresholdStrict(deviation) == NumGt(Num(deviationThreshold, 100), deviation)

\* deviationPercent <= config.deviationThreshold
WithinThreshold(deviation) == NumGte(Num(deviationThreshold, 100), deviation)

\* validatePrice once getOraclePrice has given oraclePrice, at time t; faulty: the
\* arithmetic on price.price throws
validationOf(candidate, oraclePrice, t, faulty) ==
    IF oraclePrice = <<>> THEN Invalid(0, "No oracle price available")
    ELSE LET reference == oraclePrice[1]
             stalenessMs == AgeMs(t - reference.timestamp)
             deviation == Num(Abs(candidate - reference.price), Abs(reference.price))
             base == MathMax(Num(0, 1),
                             Num(reference.price - Abs(candidate - reference.price)
                                   - reference.confidence, reference.price))
             penalty == MathMax(Num(1, 2), Num(60000 - stalenessMs, 60000))
         IN  IF stalenessMs > maxPriceAge THEN Invalid(stalenessMs, "Oracle price is stale")
             ELSE IF faulty THEN Invalid(0, "Validation error")
             ELSE Validation(WithinThreshold(deviation),
                             IF stalenessMs > 10000 THEN NumMul(base, penalty) ELSE base,
                             Num(100 * deviation.num, deviation.den),
                             Num(stalenessMs, 1000),
                             IF WithinThreshold(deviation) THEN ""
                             ELSE "Price deviation exceeds threshold")

\* validatePrice(price, tokenMint); a fetch stamps its reading and returns delay
\* ticks later, after connection.getSlot()
validatePrice(candidate, tokenMint, delay, faulty) ==
    validationOf(candidate, getOraclePrice(tokenMint, now).price,
                 IF getOraclePrice(tokenMint, now).fetched THEN now + delay ELSE now, faulty)

ValidatePrice(candidate, tokenMint, delay, faulty) ==
    /\ ocPriceCache' = CacheAfter(tokenMint, now)
    /\ now' = IF getOraclePrice(tokenMint, now).fetched THEN now + delay ELSE now
    /\ DispatchCall("validatePrice",
                    [price |-> candidate, tokenMint |-> tokenMint, delay |-> delay,
                     faulty |-> faulty],
                    <<>>, <<>>, <<validatePrice(candidate, tokenMint, delay, faulty)>>)
    /\ UNCHANGED <<mmIsInitialized, mmIsRunning, mmMonitoredPools, pending, poolMonitorVars,
                   pythConnected, switchboardConnected, ocSubscriptions, ocMultiPriceCache,
                   liquidityVars, listeners, scannerVars, hour, feeds, clientVars>>

\* the account of an oracle changes
FeedChanges(source, feed) ==
    /\ feeds[source] # <<feed>>
    /\ feeds' = [feeds EXCEPT ![source] = <<feed>>]
    /\ Observe("feedChanges", FALSE, <<>>)
    /\ UNCHANGED <<now, hour, clientVars, scannerVars, coordinatorVars>>

----------------------------------------------------------------------------
(* The account-change handlers across their await: the call is suspended in  *)
(* the parser and resumes later                                             *)

\* handlePoolAccountChange, up to await parsePoolAccountData: oldState is read
handlePoolAccountChangeAwait(pool) ==
    /\ listeners[PoolKey(pool)] > 0
    /\ Len(pending) < MaxPending
    /\ pending' = Append(pending,
                         [op |-> "handlePoolAccountChange", pool |-> pool, stage |-> "parse",
                          oldState |-> IF pool \in DOMAIN pmMonitoredPools
                                       THEN <<pmMonitoredPools[pool]>> ELSE <<>>])
    /\ Observe("handlePoolAccountChange.await", FALSE, <<>>)
    /\ UNCHANGED <<mmIsInitialized, mmIsRunning, mmMonitoredPools, statsVars, poolMonitorVars,
                   oracleVars, liquidityVars, listeners, scannerVars, envVars>>

\* handlePoolAccountChange, from the return of parsePoolAccountData to its end
handlePoolAccountChangeResume(i, parsed, newState) ==
    /\ i \in DOMAIN pending
    /\ pending[i].op = "handlePoolAccountChange"
    /\ pending' = RemoveAt(pending, i)
    /\ LET pool == pending[i].pool
           known == pending[i].oldState # <<>>
           changes == detectPoolChanges(known,
                                        IF known THEN pending[i].oldState[1] ELSE newState,
                                        newState)
       IN  IF parsed
           THEN /\ pmMonitoredPools' = MapSet(pmMonitoredPools, pool, newState)
                /\ DispatchCall("handlePoolAccountChange.resume", [pool |-> pool],
                                IF changes # <<>>
                                THEN <<Raised("poolMonitor", "poolUpdate",
                                              [poolAddress |-> pool, newState |-> newState,
                                               changes |-> changes])>>
                                ELSE <<>>,
                                <<>>, <<>>)
           ELSE /\ UNCHANGED pmMonitoredPools
                /\ DispatchCall("handlePoolAccountChange.resume", [pool |-> pool],
                                <<>>, <<>>, <<>>)
    /\ UNCHANGED <<mmIsInitialized, mmIsRunning, mmMonitoredPools, pmIsMonitoring,
                   pmHealthCheckInterval, pmSubscriptions, oracleVars, liquidityVars,
                   listeners, scannerVars, envVars>>

\* handlePythPriceUpdate / handleSwitchboardPriceUpdate, up to the await of the parser
handleOraclePriceUpdateAwait(source, feed) ==
    /\ listeners[source \o ":" \o feed] > 0
    /\ Len(pending) < MaxPending
    /\ pending' = Append(pending,
                         [op |-> "handleOraclePriceUpdate", pool |-> feed, stage |-> "parse",
                          source |-> source])
    /\ Observe("handleOraclePriceUpdate.await", FALSE, <<>>)
    /\ UNCHANGED <<mmIsInitialized, mmIsRunning, mmMonitoredPools, statsVars, poolMonitorVars,
                   oracleVars, liquidityVars, listeners, scannerVars, envVars>>

\* the same, from the return of the parser to the end
handleOraclePriceUpdateResume(i, parsed, price) ==
    /\ i \in DOMAIN pending
    /\ pending[i].op = "handleOraclePriceUpdate"
    /\ pending' = RemoveAt(pending, i)
    /\ LET feed == pending[i].pool
           source == pending[i].source
           newPrice == OraclePrice(feed, source, price, 1, now)
       IN  IF parsed
           THEN /\ ocPriceCache' = MapSet(ocPriceCache, feed, newPrice)
                /\ DispatchCall("handleOraclePriceUpdate.resume",
                                [tokenMint |-> feed, source |-> source],
                                <<Raised("oracleClient", "oracleUpdate",
                                         [tokenMint |-> feed, source |-> source,
                                          newPrice |-> newPrice])>>,
                                <<>>, <<>>)
           ELSE /\ UNCHANGED ocPriceCache
                /\ DispatchCall("handleOraclePriceUpdate.resume",
                                [tokenMint |-> feed, source |-> source], <<>>, <<>>, <<>>)
    /\ UNCHANGED <<mmIsInitialized, mmIsRunning, mmMonitoredPools, poolMonitorVars,
                   pythConnected, switchboardConnected, ocSubscriptions, ocMultiPriceCache,
                   liquidityVars, listeners, scannerVars, envVars>>

----------------------------------------------------------------------------
(* MonitoringManager: queries and the clock *)

\* the mint handlePoolUpdate validates every price against
solMint == "SOL"

\* the event of handlePoolUpdate kept back when the validation failed
EnhancedWhenValid(pool, price, validation) ==
    IF validation.isValid
    THEN <<Event("enhancedPoolUpdate",
                 [pool |-> pool, price |-> price, oracleValidated |-> TRUE])>>
    ELSE <<>>

\* emit('enhancedPoolUpdate', {...update, oracleValidated: isValidated})
Enhanced(pool, price, validation) ==
    <<Event("enhancedPoolUpdate",
            [pool |-> pool, price |-> price, oracleValidated |-> validation.isValid])>>

\* MonitoringManager.handlePoolUpdate(update) for an update of pool with price:
\* getPoolState gives the cached snapshot while it is fresh and fetches otherwise
\* (fetched, snapshot); validatePriceWithOracle asks the oracle client, whose fetch
\* takes delay and whose arithmetic raises when faulty
managerHandlePoolUpdate(pool, price, fetched, snapshot, delay, faulty) ==
    LET cached == /\ pool \in DOMAIN pmMonitoredPools
                  /\ AgeMs(now - pmMonitoredPools[pool].timestamp) < maxPriceAge
        poolState == IF cached THEN pmMonitoredPools[pool] ELSE snapshot
        validation == validatePrice(price, solMint, delay, faulty)
        own == Enhanced(pool, price, validation)
        arguments == [pool |-> pool, price |-> price, delay |-> delay, faulty |-> faulty]
    IN  /\ IF cached \/ fetched
           THEN RecordLiquidity("manager.handlePoolUpdate", arguments, pool,
                                poolState.totalLiquidity, own)
           ELSE /\ DispatchCall("manager.handlePoolUpdate", arguments, <<>>, own, <<>>)
                /\ UNCHANGED liquidityVars
        /\ ocPriceCache' = CacheAfter(solMint, now)
        /\ now' = IF getOraclePrice(solMint, now).fetched THEN now + delay ELSE now
        /\ UNCHANGED <<mmIsInitialized, mmIsRunning, mmMonitoredPools, pending,
                       poolMonitorVars, pythConnected, switchboardConnected,
                       ocSubscriptions, ocMultiPriceCache, listeners, scannerVars,
                       hour, feeds, clientVars>>

\* overall health with a second issue still counted as a warning
overallHealthLenient(issues) ==
    IF Len(issues) = 0 THEN "healthy"
    ELSE IF Len(issues) <= 2 THEN "warning" ELSE "critical"

\* overallHealth, from the issues collected
overallHealth(issues) ==
    IF Len(issues) = 0 THEN "healthy"
    ELSE IF Len(issues) <= 1 THEN "warning" ELSE "critical"

\* getHealthStatus()
getHealthStatus ==
    LET poolHealth == IF pmIsMonitoring /\ Cardinality(DOMAIN pmMonitoredPools) > 0
                      THEN "healthy"
                      ELSE IF pmIsMonitoring THEN "warning" ELSE "critical"
        oracleHealth == IF pythConnected \/ switchboardConnected THEN "healthy"
                        ELSE "critical"
        liquidityHealth == IF lmIsMonitoring THEN "healthy" ELSE "warning"
        issues == (IF poolHealth # "healthy"
                   THEN <<"Pool monitoring issues detected">> ELSE <<>>)
                    \o (IF oracleHealth # "healthy"
                        THEN <<"Oracle connection issues detected">> ELSE <<>>)
                    \o (IF liquidityHealth # "healthy"
                        THEN <<"Liquidity monitoring issues detected">> ELSE <<>>)
    IN  [overall |-> overallHealth(issues),
         components |-> [poolMonitor |-> poolHealth, oracleClient |-> oracleHealth,
                         liquidityMonitor |-> liquidityHealth],
         issues |-> issues]

GetHealthStatus ==
    /\ Dispatch("getHealthStatus", <<>>, <<>>, <<getHealthStatus>>)
    /\ UNCHANGED <<mmIsInitialized, mmIsRunning, mmMonitoredPools, pending, poolMonitorVars,
                   oracleVars, liquidityVars, listeners, scannerVars, envVars>>

\* the clock moves on by a number of ticks
Elapse(ticks, limit) ==
    /\ now + ticks <= limit
    /\ now' = now + ticks
    /\ Observe("elapse", FALSE, <<>>)
    /\ UNCHANGED <<hour, feeds, clientVars, scannerVars, coordinatorVars>>

----
(* The scanner fed by the update stream, at one instant of the clock *)

ScannerUpdates == UpdatesOf(Prices, Liquidities, {now})

NextScanner ==
    \/ ScannerStart
    \/ \E ok \in BOOLEAN : ScannerStartSettle(ok)
    \/ PoolUpdateArrives(ScannerUpdates)
    \/ PeriodicScan

InitScanner == Init /\ hour = 10

SpecScanner == InitScanner /\ [][NextScanner]_vars

----------------------------------------------------------------------------
(* The price cache under updates whose timestamps arrive in any order *)

CacheUpdates == UpdatesOf({100, 101}, {20000}, 0..now)

InitCache == Init /\ minProfitThreshold = 1

NextCache ==
    \/ ScannerStart
    \/ \E ok \in BOOLEAN : ScannerStartSettle(ok)
    \/ PoolUpdateArrives(CacheUpdates)
    \/ PeriodicScan
    \/ Tick
    \/ AdvanceHour

SpecCache == InitCache /\ [][NextCache]_vars

----------------------------------------------------------------------------
(* One scan of a cache holding two observations from different venues,     *)
(* over every liquidity tier, every age tier and every congestion tier     *)

MaxAge == 2
PairPrices == {100, 101, 102, 105}
PairLiquidities == {0, 50, 300, 700, 2000, 20000}
PairUpdates(d, p) ==
    {u \in UpdatesOf(PairPrices, PairLiquidities, 0..MaxAge) : u.dex = d /\ u.pool = p}

InitPair ==
    /\ priceCache \in {<<a, b>> : a \in PairUpdates("Raydium", "58oQ"),
                                  b \in PairUpdates("Orca", "EGZ7")}
    /\ scIsRunning = TRUE
    /\ scanInterval = TRUE
    /\ scTimers = 1
    /\ scStarting = 0
    /\ wsSubscribed = TRUE
    /\ minProfitThreshold \in Thresholds
    /\ now = MaxAge
    /\ hour \in Hours
    /\ feeds = NoFeeds
    /\ ClientInit
    /\ mmIsInitialized = FALSE
    /\ mmIsRunning = FALSE
    /\ mmMonitoredPools = {}
    /\ pending = <<>>
    /\ eventStats = EmptyMap
    /\ totalEvents = 0
    /\ pmIsMonitoring = FALSE
    /\ pmHealthCheckInterval = FALSE
    /\ pmSubscriptions = {}
    /\ pmMonitoredPools = EmptyMap
    /\ pythConnected = FALSE
    /\ switchboardConnected = FALSE
    /\ ocSubscriptions = {}
    /\ ocPriceCache = EmptyMap
    /\ ocMultiPriceCache = EmptyMap
    /\ lmIsMonitoring = FALSE
    /\ lmMonitoringInterval = FALSE
    /\ liquidityHistory = EmptyMap
    /\ liquidityThresholds = EmptyMap
    /\ activeAlerts = EmptyMap
    /\ listeners = [k \in ListenerKeys |-> 0]
    /\ lastOp = "handlePoolUpdate"
    /\ args = <<>>
    /\ raised = FALSE
    /\ out = <<Event("priceUpdate", priceCache[2])>>
    /\ inner = <<>>
    /\ returned = <<>>

NextPair == PeriodicScan

SpecPair == InitPair /\ [][NextPair]_vars


----------------------------------------------------------------------------
(* The coordinator and the scanner together, under every interleaving of    *)
(* their lifecycle calls                                                    *)

SystemSnapshots == {Snapshot(now, 100, 20000, 80)}

SystemUpdates == {u \in UpdatesOf({100}, {20000}, {now}) : u.pool = "58oQ"}

InitSystem == Init /\ hour = 10 /\ minProfitThreshold = 1

Next ==
    \/ Initialize
    \/ \E i \in 1..MaxPending, pythOk, switchboardOk \in BOOLEAN :
          InitializeSettle(i, pythOk, switchboardOk)
    \/ \E pool \in Addresses : StartPoolMonitoring(pool)
    \/ \E i \in 1..MaxPending, fetched \in BOOLEAN, snapshot \in SystemSnapshots :
          StartPoolMonitoringSettle(i, fetched, snapshot)
    \/ \E pool \in Addresses : StopPoolMonitoring(pool)
    \/ StartAllMonitoring
    \/ StopAllMonitoring
    \/ ScannerStart
    \/ \E ok \in BOOLEAN : ScannerStartSettle(ok)
    \/ ScannerStop
    \/ PoolUpdateArrives(SystemUpdates)
    \/ PeriodicScan

Spec == InitSystem /\ [][Next]_vars

----------------------------------------------------------------------------
(* The coordinator under the traffic of its components: account changes,    *)
(* health checks, oracle updates and pool updates, as the clock moves on    *)

MaxClock == 6
MaxEvents == 2

\* snapshots parsed now: healthy and liquid, or poor and below the critical liquidity
MonitorSnapshots == {Snapshot(now, 100, 200, 80), Snapshot(now, 100, 20, 40)}

\* the coordinator has counted fewer than MaxEvents events
MayRelay == totalEvents < MaxEvents

InitMonitor == Init /\ hour = 10 /\ minProfitThreshold = 1

NextMonitor ==
    \/ Initialize
    \/ \E i \in 1..MaxPending, pythOk, switchboardOk \in BOOLEAN :
          InitializeSettle(i, pythOk, switchboardOk)
    \/ StartPoolMonitoring("58oQ")
    \/ \E i \in 1..MaxPending, fetched \in BOOLEAN, snapshot \in MonitorSnapshots :
          StartPoolMonitoringSettle(i, fetched, snapshot)
    \/ \E parsed \in BOOLEAN, newState \in MonitorSnapshots :
          MayRelay /\ handlePoolAccountChange("58oQ", parsed, newState)
    \/ MayRelay /\ performHealthChecks
    \/ \E source \in Sources, parsed \in BOOLEAN :
          MayRelay /\ handleOraclePriceUpdate(source, "SOL", parsed,
                                              OraclePrice("SOL", source, 150, 1, now))
    \/ \E price \in {150, 200}, fetched \in BOOLEAN, snapshot \in MonitorSnapshots :
          MayRelay /\ managerHandlePoolUpdate("58oQ", price, fetched, snapshot, 0, FALSE)
    \/ Elapse(MaxClock, MaxClock)

SpecMonitor == InitMonitor /\ [][NextMonitor]_vars

----------------------------------------------------------------------------
(* The coordinator's lifecycle with its health query *)

NextHealth ==
    \/ Initialize
    \/ \E i \in 1..MaxPending, pythOk, switchboardOk \in BOOLEAN :
          InitializeSettle(i, pythOk, switchboardOk)
    \/ \E pool \in Addresses : StartPoolMonitoring(pool)
    \/ \E i \in 1..MaxPending, fetched \in BOOLEAN, snapshot \in SystemSnapshots :
          StartPoolMonitoringSettle(i, fetched, snapshot)
    \/ \E pool \in Addresses : StopPoolMonitoring(pool)
    \/ StartAllMonitoring
    \/ StopAllMonitoring
    \/ GetHealthStatus

SpecHealth == InitSystem /\ [][NextHealth]_vars

----------------------------------------------------------------------------
(* The liquidity monitor of an initialized coordinator.  Updates for a pool  *)
(* whose threshold was never configured have filled its history, and         *)
(* cleanup() has reset the event counters; then the threshold is configured, *)
(* updates arrive and the timer fires.                                        *)

MaxUpdates == 2

\* n points, one per tick, alternating between level - spread and level + spread
Seed(n, level, spread) ==
    [i \in 1..n |-> DataPoint(i, IF i % 2 = 1 THEN level - spread ELSE level + spread)]

SeedLengths == {0, 3, 20, historyLimit - 1, historyLimit}

SeedHistories == {Seed(n, 200, spread) : n \in SeedLengths, spread \in {0, 10}}

\* totalLiquidity of the updates, in thousands
LiquidityLevels == {50, 200, 221, 260}

\* the monitor after startMonitoring(), holding one of the histories for pool 58oQ,
\* at the tick of its last point
LiquidityStart(histories) ==
    /\ priceCache = <<>>
    /\ scIsRunning = FALSE
    /\ scanInterval = FALSE
    /\ scTimers = 0
    /\ scStarting = 0
    /\ wsSubscribed = FALSE
    /\ minProfitThreshold = 1
    /\ hour = 10
    /\ feeds = NoFeeds
    /\ ClientInit
    /\ mmIsInitialized = TRUE
    /\ mmIsRunning = FALSE
    /\ mmMonitoredPools = {}
    /\ pending = <<>>
    /\ eventStats = EmptyMap
    /\ totalEvents = 0
    /\ pmIsMonitoring = TRUE
    /\ pmHealthCheckInterval = TRUE
    /\ pmSubscriptions = {}
    /\ pmMonitoredPools = EmptyMap
    /\ pythConnected = FALSE
    /\ switchboardConnected = FALSE
    /\ ocSubscriptions = {}
    /\ ocPriceCache = EmptyMap
    /\ ocMultiPriceCache = EmptyMap
    /\ lmIsMonitoring = TRUE
    /\ lmMonitoringInterval = TRUE
    /\ \E seed \in histories :
          /\ liquidityHistory = (IF seed = <<>> THEN EmptyMap ELSE MapSet(EmptyMap, "58oQ", seed))
          /\ now = Len(seed)
    /\ liquidityThresholds = EmptyMap
    /\ activeAlerts = EmptyMap
    /\ listeners = [k \in ListenerKeys |-> 0]
    /\ lastOp = "cleanup"
    /\ args = <<>>
    /\ raised = FALSE
    /\ out = <<>>
    /\ inner = <<>>
    /\ returned = <<>>

InitLiquidity == LiquidityStart(SeedHistories)

\* the coordinator has counted fewer than MaxUpdates liquidity updates
MayUpdate == CountOf(eventStats, "liquidityUpdate") < MaxUpdates

NextLiquidity ==
    \/ monitorPoolLiquidity("58oQ")
    \/ setLiquidityThreshold("58oQ", 250)
    \/ \E level \in LiquidityLevels : MayUpdate /\ updateLiquidityData("58oQ", level)
    \/ liquidityTimer

SpecLiquidity == InitLiquidity /\ [][NextLiquidity]_vars

----------------------------------------------------------------------------
(* LiquidityMonitor: trend analysis                                         *)
(* Liquidity values are whole numbers; slope, volatility and confidence are *)
(* compared as exact fractions of the sums the code accumulates.            *)

Timeframes == {"1m", "5m", "15m", "1h", "24h"}

\* the length of a timeframe in ticks of 6000 ms
TimeframeTicks(timeframe) ==
    CASE timeframe = "1m" -> 10
      [] timeframe = "5m" -> 50
      [] timeframe = "15m" -> 150
      [] timeframe = "1h" -> 600
      [] timeframe = "24h" -> 14400

filterDataByTimeframe(history, timeframe, t) ==
    IF timeframe \in Timeframes
    THEN SelectSeq(history, LAMBDA point : point.timestamp >= t - TimeframeTicks(timeframe))
    ELSE SliceLast(history, trendAnalysisWindow)

\* slope = SlopeNum / SlopeDen, with x the index of the point from 0
SlopeNum(data) ==
    LET n == Len(data)
        sumX == SumOf([i \in 1..n |-> i - 1], n)
        sumY == SumOf([i \in 1..n |-> data[i].liquidity], n)
        sumXY == SumOf([i \in 1..n |-> (i - 1) * data[i].liquidity], n)
    IN  n * sumXY - sumX * sumY

SlopeDen(data) ==
    LET n == Len(data)
        sumX == SumOf([i \in 1..n |-> i - 1], n)
        sumX2 == SumOf([i \in 1..n |-> (i - 1) * (i - 1)], n)
    IN  n * sumX2 - sumX * sumX

\* volatility = sqrt(ScaledSquares / n^3) / (sumY / n) > 0.1, squared on both sides;
\* |slope| < avgLiquidity * 0.001 multiplied by 1000 * n * SlopeDen
calculateTrend(data) ==
    IF Len(data) < 3 THEN "stable"
    ELSE LET n == Len(data)
             sumY == SumOf([i \in 1..n |-> data[i].liquidity], n)
         IN  IF 100 * ScaledSquares(data) > n * sumY * sumY THEN "volatile"
             ELSE IF 1000 * n * Abs(SlopeNum(data)) < sumY * SlopeDen(data) THEN "stable"
             ELSE IF SlopeNum(data) > 0 THEN "increasing" ELSE "decreasing"

calculateChangePercent(data) ==
    IF Len(data) < 2 THEN Num(0, 1)
    ELSE Num(100 * (data[Len(data)].liquidity - data[1].liquidity), data[1].liquidity)

\* residualSS: the squared steps between neighbours
ResidualSquares(data) ==
    SumOf([i \in 1..(Len(data) - 1) |->
              (data[i + 1].liquidity - data[i].liquidity)
                * (data[i + 1].liquidity - data[i].liquidity)], Len(data) - 1)

\* totalSS = ScaledSquares / n^2, so 1 - residualSS / totalSS is
\* (ScaledSquares - n^2 * residualSS) / ScaledSquares, and 0 / 0 when all values are
\* equal; rSquared * min(1, n / 50) + 0.1 is put over the denominator 50 * rSquared.den
calculateTrendConfidence(data) ==
    IF Len(data) < 5 THEN Num(3, 10)
    ELSE LET n == Len(data)
             totalSquares == ScaledSquares(data)
             rSquared == MathMax(Num(0, 1),
                                 Num(totalSquares - n * n * ResidualSquares(data), totalSquares))
             adjusted == Num(rSquared.num * Min(n, 50) + 5 * rSquared.den, 50 * rSquared.den)
         IN  MathMin(Num(19, 20), adjusted)

\* LiquidityTrend, or no value for null
getLiquidityTrend(pool, timeframe, histories, t) ==
    IF pool \notin DOMAIN histories \/ Len(GetOrEmpty(histories, pool)) < 10 THEN <<>>
    ELSE LET filteredData == filterDataByTimeframe(histories[pool], timeframe, t)
         IN  IF Len(filteredData) < 5 THEN <<>>
             ELSE <<[poolAddress |-> pool, timeframe |-> timeframe,
                     trend |-> calculateTrend(filteredData),
                     changePercent |-> calculateChangePercent(filteredData),
                     confidence |-> calculateTrendConfidence(filteredData),
                     dataPoints |-> filteredData]>>

\* getLiquidityTrend(poolAddress, timeframe)
GetLiquidityTrend(pool, timeframe) ==
    /\ Dispatch("getLiquidityTrend", <<>>, <<>>,
                getLiquidityTrend(pool, timeframe, liquidityHistory, now))
    /\ UNCHANGED <<mmIsInitialized, mmIsRunning, mmMonitoredPools, pending, poolMonitorVars,
                   oracleVars, liquidityVars, listeners, scannerVars, envVars>>

----------------------------------------------------------------------------
(* The trend of recorded histories: one point per tick, read at once or     *)
(* some ticks after the last point.                                         *)

\* n points, one per tick, from start in steps of step
Ramp(n, start, step) == [i \in 1..n |-> DataPoint(i, start + (i - 1) * step)]

TrendLengths == {9, 10, 12}

TrendHistories ==
    UNION {{Ramp(n, 100, 1), Ramp(n, 10, 5), Ramp(n, 1001, 1), Ramp(n, 200, 0),
            Ramp(n, 120, -1), Seed(n, 200, 10)} : n \in TrendLengths}

InitTrend == LiquidityStart(TrendHistories)

NextTrend ==
    \/ \E timeframe \in {"1m", "5m", "all"} : GetLiquidityTrend("58oQ", timeframe)
    \/ monitorPoolLiquidity("58oQ")
    \/ Elapse(1, Len(liquidityHistory["58oQ"]) + MaxClock)

SpecTrend == InitTrend /\ [][NextTrend]_vars

----------------------------------------------------------------------------
(* Price validation against the oracle readings, as the oracle accounts     *)
(* change, the sources connect and the clock moves on.                      *)

ValidationFeeds == {Feed(100, 1), Feed(120, 1)}

\* prices of the candidates: 5% below, 5% above and 6% above a reading of 100
Candidates == {95, 105, 106}

\* ticks connection.getSlot() takes: none, or more than maxPriceAge
SlotDelays == {0, 6}

InitOracle == Init /\ hour = 10 /\ minProfitThreshold = 1

NextOracle ==
    \/ Initialize
    \/ \E i \in 1..MaxPending, pythOk, switchboardOk \in BOOLEAN :
          InitializeSettle(i, pythOk, switchboardOk)
    \/ \E source \in Sources, feed \in ValidationFeeds : FeedChanges(source, feed)
    \/ \E candidate \in Candidates, delay \in SlotDelays, faulty \in BOOLEAN :
          /\ now + delay <= MaxClock
          /\ ValidatePrice(candidate, "SOL", delay, faulty)
    \/ Elapse(3, MaxClock)

SpecOracle == InitOracle /\ [][NextOracle]_vars

----------------------------------------------------------------------------
(* Consensus over the readings of the connected sources, for every pair of  *)
(* account contents.                                                        *)

\* account contents: confidence intervals of 1%, 50%, 100% and 150% of the price
ConsensusFeeds == {Feed(100, 1), Feed(100, 50), Feed(100, 100), Feed(100, 150), Feed(120, 1)}

NextConsensus ==
    \/ Initialize
    \/ \E i \in 1..MaxPending, pythOk, switchboardOk \in BOOLEAN :
          InitializeSettle(i, pythOk, switchboardOk)
    \/ \E source \in Sources, feed \in ConsensusFeeds : FeedChanges(source, feed)
    \/ GetMultiOraclePrice("SOL")
    \/ Elapse(MaxClock, MaxClock)

SpecConsensus == InitOracle /\ [][NextConsensus]_vars

----------------------------------------------------------------------------
(* The coordinator's pool update handler next to the scanner's: both are    *)
(* handed the updates of one Raydium and one Orca pool while the oracle     *)
(* accounts change                                                          *)

\* the prices the two pools report
AdvisoryPrices == {95, 106}

AdvisoryUpdates ==
    {u \in UpdatesOf(AdvisoryPrices, {20000}, {now}) :
        \/ u.dex = "Raydium" /\ u.pool = "58oQ"
        \/ u.dex = "Orca" /\ u.pool = "EGZ7"}

\* the snapshot getPoolState fetches: liquid, or below the default threshold
AdvisorySnapshots == {Snapshot(now, 100, 200, 80), Snapshot(now, 100, 20, 40)}

\* the liquidity monitor holds no history of the pool yet
MayRecord == "58oQ" \notin DOMAIN liquidityHistory

NextAdvisory ==
    \/ Initialize
    \/ \E i \in 1..MaxPending, pythOk, switchboardOk \in BOOLEAN :
          InitializeSettle(i, pythOk, switchboardOk)
    \/ FeedChanges("pyth", Feed(100, 1))
    \/ "58oQ" \notin DOMAIN liquidityThresholds /\ setLiquidityThreshold("58oQ", DefaultThreshold)
    \/ ScannerStart
    \/ \E ok \in BOOLEAN : ScannerStartSettle(ok)
    \/ PoolUpdateArrives(AdvisoryUpdates)
    \/ PeriodicScan
    \/ \E price \in AdvisoryPrices, fetched \in BOOLEAN, snapshot \in AdvisorySnapshots,
          faulty \in BOOLEAN :
          /\ fetched => MayRecord
          /\ managerHandlePoolUpdate("58oQ", price, fetched, snapshot, 0, faulty)

SpecAdvisory == InitOracle /\ [][NextAdvisory]_vars

----------------------------------------------------------------------------
(* The scanner fed by three venues, one of them configured under a name that *)
(* feeRates inherits                                                         *)

VenuePrices == {100, 106}

VenueUpdates ==
    {u \in UpdatesOf(VenuePrices, Liquidities, {now}) \cup
              {[dex |-> "constructor", pool |-> "7qhG", price |-> x, liquidity |-> l,
                timestamp |-> now] : x \in VenuePrices, l \in Liquidities} :
        \/ u.dex = "Raydium" /\ u.pool = "58oQ"
        \/ u.dex = "Orca" /\ u.pool = "EGZ7"
        \/ u.dex = "constructor"}

NextVenues ==
    \/ ScannerStart
    \/ \E ok \in BOOLEAN : ScannerStartSettle(ok)
    \/ \E update \in VenueUpdates : wsSubscribed /\ handlePoolUpdate(update)
    \/ PeriodicScan

SpecVenues == InitSystem /\ [][NextVenues]_vars

----------------------------------------------------------------------------
(* The cost estimate for every pair of venues, prices and liquidities, at    *)
(* every hour of the day                                                     *)

\* a listed venue, one that is not listed, and one whose name feeRates inherits
CostDexes == {"Raydium", "Serum", "constructor"}
CostPrices == {0, 100}
CostInputs ==
    {ToDexPrice([dex |-> d, pool |-> "58oQ", price |-> x, liquidity |-> l, timestamp |-> now]) :
        d \in CostDexes, x \in CostPrices, l \in Liquidities}

\* calculateTotalCosts(buyDex, sellDex)
CalculateTotalCosts(buyDex, sellDex) ==
    /\ lastOp' = "calculateTotalCosts"
    /\ args' = [buyDex |-> buyDex, sellDex |-> sellDex]
    /\ raised' = TotalCostsRaise(buyDex, sellDex)
    /\ returned' = IF TotalCostsRaise(buyDex, sellDex) THEN <<>>
                   ELSE <<calculateTotalCosts(buyDex, sellDex, hour)>>
    /\ out' = <<>>
    /\ inner' = <<>>
    /\ UNCHANGED <<scannerVars, envVars, coordinatorVars>>

NextCosts ==
    \/ \E buyDex, sellDex \in CostInputs : CalculateTotalCosts(buyDex, sellDex)
    \/ AdvanceHour

SpecCosts == InitSystem /\ [][NextCosts]_vars

----------------------------------------------------------------------------
(* The coordinator started and stopped while account changes of a pool and   *)
(* of an oracle feed are being parsed                                        *)

InFlightSnapshots == {Snapshot(now, 100, 200, 80)}

NextInFlight ==
    \/ Initialize
    \/ \E i \in 1..MaxPending, pythOk, switchboardOk \in BOOLEAN :
          InitializeSettle(i, pythOk, switchboardOk)
    \/ StartPoolMonitoring("58oQ")
    \/ \E i \in 1..MaxPending, fetched \in BOOLEAN, snapshot \in InFlightSnapshots :
          StartPoolMonitoringSettle(i, fetched, snapshot)
    \/ StopPoolMonitoring("58oQ")
    \/ StartAllMonitoring
    \/ StopAllMonitoring
    \/ handlePoolAccountChangeAwait("58oQ")
    \/ \E i \in 1..MaxPending, parsed \in BOOLEAN, newState \in InFlightSnapshots :
          MayRelay /\ handlePoolAccountChangeResume(i, parsed, newState)
    \/ \E source \in Sources : handleOraclePriceUpdateAwait(source, "SOL")
    \/ \E i \in 1..MaxPending, parsed \in BOOLEAN :
          MayRelay /\ handleOraclePriceUpdateResume(i, parsed, 150)

SpecInFlight == InitMonitor /\ [][NextInFlight]_vars

----------------------------------------------------------------------------
(* Properties of the scanner *)

\* the last handler ran checkArbitrageOpportunities over the cache as it now stands
ScanRan == lastOp \in {"handlePoolUpdate", "periodicScan"}

\* the opportunities the last handler emitted
Emitted == {out[k].data : k \in {n \in DOMAIN out : out[n].type = "arbitrageOpportunity"}}

\* the emitted opportunities that combine the pools of observations a and b
EmittedFor(a, b) ==
    {o \in Emitted : o.pair \in {PairLabel(a.pool, b.pool), PairLabel(b.pool, a.pool)}}

CheaperOf(a, b) == IF a.price < b.price THEN a ELSE b
DearerOf(a, b) == IF a.price < b.price THEN b ELSE a
SpreadOf(a, b) == Micro(DearerOf(a, b).price - CheaperOf(a, b).price)
NetOf(a, b) ==
    SpreadOf(a, b)
      - calculateTotalCosts(ToDexPrice(CheaperOf(a, b)), ToDexPrice(DearerOf(a, b)), hour)

\* the pairs of cache positions that hold observations of different venues
CrossVenuePairs ==
    {<<i, j>> \in (DOMAIN priceCache) \X (DOMAIN priceCache) :
        i < j /\ priceCache[i].dex # priceCache[j].dex}

\* C1: after a scan, a pair of cached observations from different venues has an
\* emitted opportunity exactly when its net profit (spread minus total costs) is
\* positive and its profit percentage, as the scanner computes it, reaches the
\* configured minimum; the opportunity buys at the strictly lower price, and a pair
\* with equal prices has none.
C1_EmitsIffProfitable ==
    ScanRan =>
        \A pr \in CrossVenuePairs :
            LET a == priceCache[pr[1]]
                b == priceCache[pr[2]]
            IN  /\ (EmittedFor(a, b) # {})
                     <=> /\ NetOf(a, b) > 0
                         /\ PctGte(Pct(SpreadOf(a, b), CheaperOf(a, b).price),
                                   minProfitThreshold)
                /\ \A o \in EmittedFor(a, b) :
                        /\ o.buyPrice < o.sellPrice
                        /\ o.buyPrice = CheaperOf(a, b).price
                        /\ o.sellPrice = DearerOf(a, b).price
                        /\ o.buyDex = CheaperOf(a, b).dex
                        /\ o.sellDex = DearerOf(a, b).dex
                        /\ o.netProfit = NetOf(a, b)
                /\ a.price = b.price => EmittedFor(a, b) = {}

\* a scan that emitted for one pair and rejected, on the threshold alone, another
\* pair whose net profit is positive
C1_Witness ==
    /\ ScanRan
    /\ \E pr \in CrossVenuePairs : EmittedFor(priceCache[pr[1]], priceCache[pr[2]]) # {}
    /\ \E pr \in CrossVenuePairs :
          /\ NetOf(priceCache[pr[1]], priceCache[pr[2]]) > 0
          /\ EmittedFor(priceCache[pr[1]], priceCache[pr[2]]) = {}

\* C2: whatever the cache holds, no scan (on an update or periodic) emits an
\* opportunity whose buy venue is its sell venue.
C2_NoSameVenue ==
    \A o \in Emitted : o.buyDex # o.sellDex

\* a scan over a cache holding two observations of one venue whose spread would
\* pay, with another venue's opportunity emitted beside them
C2_Witness ==
    /\ ScanRan
    /\ Emitted # {}
    /\ \E i, j \in DOMAIN priceCache :
          /\ i < j
          /\ priceCache[i].dex = priceCache[j].dex
          /\ NetOf(priceCache[i], priceCache[j]) > 0
          /\ PctGte(Pct(SpreadOf(priceCache[i], priceCache[j]),
                        CheaperOf(priceCache[i], priceCache[j]).price),
                    minProfitThreshold)

\* C3: no emitted opportunity combines observations of two different instruments.
C3_SameInstrument ==
    \A o \in Emitted :
        \A x, y \in Pools : o.pair = PairLabel(x, y) => InstrumentOf(x) = InstrumentOf(y)

\* a scan that emitted an opportunity between a SOL/USDT pool and a SOL/USDC pool
C3_Witness ==
    /\ ScanRan
    /\ \E o \in Emitted : o.pair = PairLabel("7qhG", "EGZ7")


\* C4 as stated: the percentage an emitted opportunity carries, and the value held
\* against the minimum-profit threshold, is netProfit / buyPrice x 100.
C4_NetPercentage ==
    \A o \in Emitted :
        /\ PctEq(o.profitPercentage, Pct(o.netProfit, o.buyPrice))
        /\ PctGte(Pct(o.netProfit, o.buyPrice), minProfitThreshold)

\* C4 as the scanner computes it: the percentage carried and held against the
\* threshold is the gross spread (sellPrice - buyPrice) / buyPrice x 100; the net
\* profit, spread minus total costs, is carried beside it and only has to be positive.
C4_GrossPercentage ==
    /\ \A o \in Emitted :
          /\ PctEq(o.profitPercentage, Pct(Micro(o.sellPrice - o.buyPrice), o.buyPrice))
          /\ PctGte(Pct(Micro(o.sellPrice - o.buyPrice), o.buyPrice), minProfitThreshold)
          /\ o.netProfit > 0
          /\ \E pr \in CrossVenuePairs :
                /\ EmittedFor(priceCache[pr[1]], priceCache[pr[2]]) = {o}
                /\ o.netProfit = NetOf(priceCache[pr[1]], priceCache[pr[2]])
    /\ lastOp = "periodicScan" =>
          \A pr \in CrossVenuePairs :
              LET a == priceCache[pr[1]]
                  b == priceCache[pr[2]]
              IN  (/\ NetOf(a, b) > 0
                   /\ PctGte(Pct(SpreadOf(a, b), CheaperOf(a, b).price), minProfitThreshold))
                    => EmittedFor(a, b) # {}

\* an opportunity emitted although its net profit is a smaller share of the buy
\* price than the threshold asks
C4_Witness ==
    \E o \in Emitted : ~PctGte(Pct(o.netProfit, o.buyPrice), minProfitThreshold)

\* C5: executionProbability, liquidityScore and confidence of every emitted
\* opportunity lie in [0, 1], whatever the liquidity (zero included) and the age
\* of the two observations.
C5_UnitInterval ==
    \A o \in Emitted :
        /\ 0 <= o.executionProbability /\ o.executionProbability <= 10000
        /\ 0 <= o.liquidityScore /\ o.liquidityScore <= 10000
        /\ 0 <= o.confidence /\ o.confidence <= 10000

\* an opportunity emitted from two observations without liquidity, both two ticks old
C5_Witness ==
    /\ lastOp = "periodicScan"
    /\ Emitted # {}
    /\ \A i \in DOMAIN priceCache :
          priceCache[i].liquidity = 0 /\ priceCache[i].timestamp + 2 <= now

----------------------------------------------------------------------------
(* Properties of the price cache *)

KeysOf(cache) == {CacheKey(cache[i]) : i \in DOMAIN cache}
EntriesOf(cache, key) == {i \in DOMAIN cache : CacheKey(cache[i]) = key}
OtherEntries(cache, key) == {cache[i] : i \in DOMAIN cache \ EntriesOf(cache, key)}

\* C6: a pool update leaves exactly one entry under its key, the update itself
\* whatever its timestamp, adds no other key and changes no other key's entry;
\* nothing but an update changes the cache.
C6_LastWriteWins ==
    [][IF lastOp' = "handlePoolUpdate"
       THEN LET update == out'[1].data
                key == CacheKey(update)
            IN  /\ Cardinality(EntriesOf(priceCache', key)) = 1
                /\ \A i \in EntriesOf(priceCache', key) : priceCache'[i] = update
                /\ KeysOf(priceCache') = KeysOf(priceCache) \cup {key}
                /\ OtherEntries(priceCache', key) = OtherEntries(priceCache, key)
                /\ Len(priceCache') = Cardinality(KeysOf(priceCache'))
       ELSE priceCache' = priceCache]_vars

\* an update stamped before the entry it replaced, with other keys cached beside it
C6_Witness ==
    /\ lastOp = "handlePoolUpdate"
    /\ Len(priceCache) >= 2
    /\ CacheKey(priceCache[1]) = CacheKey(out[1].data)
    /\ priceCache[1] = out[1].data
    /\ priceCache[1].timestamp < now
    /\ \E i \in DOMAIN priceCache : priceCache[i].timestamp > priceCache[1].timestamp


----------------------------------------------------------------------------
(* Properties of the lifecycle *)

\* the step returned normally, emitted nothing and changed no state
Quiet == ~raised' /\ out' = <<>> /\ UNCHANGED <<scannerVars, coordinatorVars, envVars>>

\* C7: startAllMonitoring() while running, stopAllMonitoring() while not running,
\* ArbitrageScanner.start() while running and ArbitrageScanner.stop() while stopped
\* return normally, emit no event and leave every piece of state as it was.
C7_IdempotentLifecycle ==
    [][/\ (lastOp' = "startAllMonitoring" /\ mmIsRunning) => Quiet
       /\ (lastOp' = "stopAllMonitoring" /\ ~mmIsRunning) => Quiet
       /\ (lastOp' = "scanner.start" /\ scIsRunning) => Quiet
       /\ (lastOp' = "scanner.stop" /\ ~scIsRunning) => Quiet]_vars

\* stopAllMonitoring() called on an initialized coordinator that is not running,
\* whose timers are live: the call did nothing
C7_Witness ==
    /\ lastOp = "stopAllMonitoring"
    /\ out = <<>>
    /\ ~mmIsRunning
    /\ mmIsInitialized
    /\ pmHealthCheckInterval
    /\ scIsRunning

NoListeners == \A k \in DOMAIN listeners : listeners[k] = 0

\* C8: once stopAllMonitoring() has returned, the health-check timer and the
\* liquidity timer are cancelled and no pool or oracle account-change subscription
\* is left.
C8_StopCancelsAll ==
    lastOp = "stopAllMonitoring" =>
        /\ ~pmHealthCheckInterval
        /\ ~lmMonitoringInterval
        /\ pmSubscriptions = {}
        /\ ocSubscriptions = {}
        /\ NoListeners

\* stopAllMonitoring() returned on a coordinator whose components were started
C8_Witness ==
    /\ lastOp = "stopAllMonitoring"
    /\ mmIsInitialized

\* C9: when startAllMonitoring() has returned successfully, the pool monitor's
\* health-check loop and the liquidity monitor's loop are active.
C9_StartRunsAll ==
    (\E k \in DOMAIN out : out[k].type = "monitoringStarted") =>
        /\ pmIsMonitoring /\ pmHealthCheckInterval
        /\ lmIsMonitoring /\ lmMonitoringInterval

\* startAllMonitoring() returned successfully
C9_Witness ==
    \E k \in DOMAIN out : out[k].type = "monitoringStarted"

\* C10: initialize() raises and leaves the coordinator uninitialized when neither
\* oracle network connects, and succeeds, leaving it initialized, when one does.
C10_InitializeNeedsAnOracle ==
    lastOp = "initialize.settled" =>
        IF \E k \in DOMAIN out : out[k].type = "oracleConnected"
        THEN ~raised /\ mmIsInitialized
        ELSE raised /\ ~mmIsInitialized

\* initialize() completed after both connection attempts failed
C10_Witness ==
    /\ lastOp = "initialize.settled"
    /\ ~\E k \in DOMAIN out : out[k].type = "oracleConnected"

----------------------------------------------------------------------------
(* Properties of the coordinator's event surface *)

RelayedTypes == {"poolUpdate", "healthAlert", "liquidityAlert", "oracleUpdate"}

IsRelayedType(e) == e.type \in RelayedTypes

\* the events of the four relayed types among a sequence of events, as name and payload
RelayedAmong(events) ==
    LET selected == SelectSeq(events, IsRelayedType)
    IN  [k \in DOMAIN selected |-> Event(selected[k].type, selected[k].data)]

\* C11: in every step, the poolUpdate, healthAlert, liquidityAlert and oracleUpdate
\* events the coordinator emits are exactly those its components raised in that
\* step, once each, under the same name, with the same payload and in the order
\* raised; the counter of each of these types grows by the number of events of that
\* type raised, and the total by at least that.
C11_RelayedOnce ==
    [][/\ RelayedAmong(out') = RelayedAmong(inner')
       /\ \A type \in RelayedTypes :
             CountOf(eventStats', type)
               = CountOf(eventStats, type)
                   + Cardinality({k \in DOMAIN inner' : inner'[k].type = type})
       /\ totalEvents' >= totalEvents + Len(RelayedAmong(inner'))]_vars

\* a health check raised a health alert and then a liquidity alert for a pool, after
\* an account change had raised a pool update
C11_Witness ==
    /\ lastOp = "performHealthChecks"
    /\ Len(out) = 2
    /\ out[1].type = "healthAlert"
    /\ out[2].type = "liquidityAlert"
    /\ CountOf(eventStats, "liquidityAlert") = 1
    /\ CountOf(eventStats, "healthAlert") = 1
    /\ CountOf(eventStats, "poolUpdate") = 1
    /\ totalEvents = 3

\* C12: after a health check, every monitored pool whose snapshot is older than
\* maxPriceAge has a staleness notification among the events the coordinator emitted.
C12_StaleDelivered ==
    lastOp = "performHealthChecks" =>
        \A pool \in DOMAIN pmMonitoredPools :
            AgeMs(now - pmMonitoredPools[pool].timestamp) > maxPriceAge
              => \E k \in DOMAIN out :
                    /\ out[k].type = "staleData"
                    /\ out[k].data.poolAddress = pool

\* a health check found a stale snapshot: the pool monitor raised staleData for it
C12_Witness ==
    /\ lastOp = "performHealthChecks"
    /\ \E pool \in DOMAIN pmMonitoredPools, k \in DOMAIN inner :
          /\ AgeMs(now - pmMonitoredPools[pool].timestamp) > maxPriceAge
          /\ inner[k].type = "staleData"
          /\ inner[k].data.poolAddress = pool

\* the value the health query returned
Status == returned[1]

\* the components whose own status, as the query reports it, is not healthy
Unhealthy ==
    {c \in {"poolMonitor", "oracleClient", "liquidityMonitor"} :
        Status.components[c] # "healthy"}

\* C13: getHealthStatus() reports overall health from the number of issues alone
\* (none: healthy, one: warning, two or more: critical); the issue list has one entry
\* for every component whose own status is not healthy and no other; the oracle
\* client is not healthy exactly when neither oracle source is connected, and the
\* liquidity monitor exactly when its background loop is not running.
C13_HealthClassification ==
    lastOp = "getHealthStatus" =>
        /\ Status.overall = (CASE Len(Status.issues) = 0 -> "healthy"
                               [] Len(Status.issues) = 1 -> "warning"
                               [] OTHER -> "critical")
        /\ Len(Status.issues) = Cardinality(Unhealthy)
        /\ Cardinality({Status.issues[k] : k \in DOMAIN Status.issues}) = Len(Status.issues)
        /\ ("oracleClient" \in Unhealthy) <=> (~pythConnected /\ ~switchboardConnected)
        /\ ("liquidityMonitor" \in Unhealthy) <=> ~lmIsMonitoring

\* the query answered for a coordinator with exactly two unhealthy components: no
\* oracle connected and no pool monitored, while both loops run
C13_Witness ==
    /\ lastOp = "getHealthStatus"
    /\ Len(Status.issues) = 2
    /\ Status.overall = "critical"
    /\ lmIsMonitoring
    /\ pmIsMonitoring

----------------------------------------------------------------------------
(* Properties of the liquidity monitor *)

\* the step was an updateLiquidityData call
Updated == lastOp' = "updateLiquidityData"

\* the pool and the data point of the update the last handler made
UpdatedPool == inner[Len(inner)].data.poolAddress
UpdatedPoint == inner[Len(inner)].data.dataPoint

\* the alerts the liquidity monitor emitted as liquidityAlert events in a handler
AlertsIn(events) ==
    LET selected == SelectSeq(events, LAMBDA e : e.type = "liquidityAlert")
    IN  [k \in DOMAIN selected |-> selected[k].data]

\* how many alerts of a type a sequence of alerts holds
AlertCount(alerts, type) == Cardinality({k \in DOMAIN alerts : alerts[k].type = type})

\* C14: no history ever holds more than historyLimit points; an update appends its
\* point at the end, and when the history was full it drops the oldest point and
\* nothing else, the remaining points keeping their order.
C14_HistoryBounded ==
    [][/\ \A pool \in DOMAIN liquidityHistory' : Len(liquidityHistory'[pool]) <= historyLimit
       /\ Updated =>
            LET pool == UpdatedPool'
                old == GetOrEmpty(liquidityHistory, pool)
                new == liquidityHistory'[pool]
            IN  /\ new[Len(new)] = UpdatedPoint'
                /\ IF Len(old) < historyLimit
                   THEN new = Append(old, UpdatedPoint')
                   ELSE new = Append(Tail(old), UpdatedPoint')]_vars

\* an update reached a full history: the point of the first tick is gone
C14_Witness ==
    /\ lastOp = "updateLiquidityData"
    /\ Len(liquidityHistory[UpdatedPool]) = historyLimit
    /\ liquidityHistory[UpdatedPool][1].timestamp = 2

\* a rule's condition on the history after the update, as the monitor computes it
LowSatisfied(pool, point) ==
    pool \in DOMAIN liquidityThresholds /\ point.liquidity < liquidityThresholds[pool]
DrainSatisfied(history) ==
    Len(history) >= 5 /\ NumGt(calculateLiquidityDrop(SliceLast(history, 5)), Num(2, 10))
AnomalySatisfied(history, point) == detectLiquidityAnomaly(history, point)
ImpactSatisfied(history) ==
    Len(history) >= 3 /\ NumGte(getMaxLiquidityChange(SliceLast(history, 3)), Num(15, 100))

\* C15: after an update, each of the four rules whose condition holds has its own
\* alert among the liquidityAlert events of the update, whatever the other rules do
\* and whether or not their inputs are configured.
C15_RulesIndependent ==
    lastOp = "updateLiquidityData" =>
        LET history == liquidityHistory[UpdatedPool]
            alerts == AlertsIn(out)
        IN  /\ LowSatisfied(UpdatedPool, UpdatedPoint) => AlertCount(alerts, "low_liquidity") = 1
            /\ DrainSatisfied(history) => AlertCount(alerts, "pool_drain") = 1
            /\ AnomalySatisfied(history, UpdatedPoint) => AlertCount(alerts, "anomaly") = 1
            /\ ImpactSatisfied(history) => AlertCount(alerts, "high_impact") = 1

\* an update on a pool without a configured threshold dropped the liquidity by more
\* than 20% over the last five points and emitted no alert
C15_Witness ==
    /\ lastOp = "updateLiquidityData"
    /\ UpdatedPool \notin DOMAIN liquidityThresholds
    /\ DrainSatisfied(liquidityHistory[UpdatedPool])
    /\ AlertsIn(out) = <<>>

\* C16: after an update or a run of the monitoring timer, every pool whose last three
\* points hold a relative change of at least 15% has a high_impact alert of severity
\* high among the liquidityAlert events emitted and in the alert log.
C16_HighImpactEmitted ==
    lastOp \in {"updateLiquidityData", "liquidityTimer"} =>
        \A pool \in DOMAIN liquidityHistory \cap DOMAIN liquidityThresholds :
            ImpactSatisfied(liquidityHistory[pool]) =>
                /\ \E k \in DOMAIN out :
                      /\ out[k].type = "liquidityAlert"
                      /\ out[k].data.type = "high_impact"
                      /\ out[k].data.severity = "high"
                      /\ out[k].data.poolAddress = pool
                /\ AlertCount(GetOrEmpty(activeAlerts, pool), "high_impact") > 0

\* the timer's checkLiquidityAlerts() returned a high_impact alert, and nothing was
\* emitted or logged
C16_Witness ==
    /\ lastOp = "liquidityTimer"
    /\ AlertCount(returned[1], "high_impact") = 1
    /\ returned[1][1].severity = "high"
    /\ out = <<>>
    /\ inner = <<>>
    /\ AlertCount(GetOrEmpty(activeAlerts, "58oQ"), "high_impact") = 0

\* the last update was below the configured threshold of its pool
LowUpdate == LowSatisfied(UpdatedPool, UpdatedPoint)

\* C17: an update whose liquidity is below the pool's configured threshold emits
\* one low_liquidity alert of severity high, carrying the liquidity and the
\* threshold, and appends it to the pool's alert log, whatever the log already holds.
C17_LowLiquidityEveryTime ==
    [][(Updated /\ LowUpdate') =>
         LET pool == UpdatedPool'
             alerts == AlertsIn(out')
             log == GetOrEmpty(activeAlerts, pool)
         IN  /\ AlertCount(alerts, "low_liquidity") = 1
             /\ AlertsIn(inner') = alerts
             /\ \A k \in DOMAIN alerts :
                   alerts[k].type = "low_liquidity" =>
                       /\ alerts[k].severity = "high"
                       /\ alerts[k].poolAddress = pool
                       /\ alerts[k].currentLiquidity = UpdatedPoint'.liquidity
                       /\ alerts[k].thresholdLiquidity = liquidityThresholds'[pool]
             /\ activeAlerts'[pool] = log \o alerts
             /\ AlertCount(activeAlerts'[pool], "low_liquidity")
                  = AlertCount(log, "low_liquidity") + 1]_vars

\* two updates in a row below the threshold: the log holds two low_liquidity alerts
C17_Witness ==
    /\ lastOp = "updateLiquidityData"
    /\ LowUpdate
    /\ AlertCount(GetOrEmpty(activeAlerts, UpdatedPool), "low_liquidity") = 2
    /\ CountOf(eventStats, "liquidityUpdate") = 2

\* the points an update found in the history, newest last, at most k of them
PriorPoints(history, k) == SliceLast(SubSeq(history, 1, Len(history) - 1), k)

\* value is more than two standard deviations away from the mean of the points:
\* |x - sum/n| > 2 * sqrt(squares / n^3), with squares the sum of (n * v - sum)^2
DeviatesFrom(points, value) ==
    LET n == Len(points)
        dev == n * value - SumOf([i \in 1..n |-> points[i].liquidity], n)
    IN  n * dev * dev > 4 * ScaledSquares(points)

\* C18: an update that finds 20 prior points and deviates from them by more than two
\* of their standard deviations emits one anomaly alert of severity medium; an
\* update equal to 20 identical prior points emits none.
C18_AnomalyAgainstPrior ==
    (/\ lastOp = "updateLiquidityData"
     /\ UpdatedPool \in DOMAIN liquidityThresholds
     /\ Len(liquidityHistory[UpdatedPool]) > 20) =>
        LET prior == PriorPoints(liquidityHistory[UpdatedPool], 20)
            alerts == AlertsIn(out)
        IN  /\ DeviatesFrom(prior, UpdatedPoint.liquidity) =>
                /\ AlertCount(alerts, "anomaly") = 1
                /\ \A k \in DOMAIN alerts :
                      alerts[k].type = "anomaly" => alerts[k].severity = "medium"
            /\ (\A k \in DOMAIN prior : prior[k].liquidity = UpdatedPoint.liquidity) =>
                AlertCount(alerts, "anomaly") = 0

\* 221 arrived after twenty points of mean 200 and standard deviation 10, and no
\* anomaly alert was emitted
C18_Witness ==
    /\ lastOp = "updateLiquidityData"
    /\ UpdatedPool \in DOMAIN liquidityThresholds
    /\ Len(liquidityHistory[UpdatedPool]) = 21
    /\ PriorPoints(liquidityHistory[UpdatedPool], 20) = Seed(20, 200, 10)
    /\ UpdatedPoint.liquidity = 221
    /\ DeviatesFrom(Seed(20, 200, 10), 221)
    /\ AlertCount(AlertsIn(out), "anomaly") = 0

\* the trend the last getLiquidityTrend call returned
Trend == returned[1]

\* each point of the data holds more liquidity than the one before it
StrictlyIncreasing(data) ==
    \A i \in 1..(Len(data) - 1) : data[i].liquidity < data[i + 1].liquidity

\* C19: a trend computed over a window of at least 10 strictly increasing points has
\* direction increasing and a positive changePercent.
C19_IncreasingTrend ==
    (/\ lastOp = "getLiquidityTrend"
     /\ returned # <<>>
     /\ Len(Trend.dataPoints) >= 10
     /\ StrictlyIncreasing(Trend.dataPoints)) =>
        /\ Trend.trend = "increasing"
        /\ NumGt(Trend.changePercent, Num(0, 1))

\* ten points rising from 10 to 55 in steps of 5 are reported as volatile
C19_Witness ==
    /\ lastOp = "getLiquidityTrend"
    /\ returned # <<>>
    /\ Trend.dataPoints = Ramp(10, 10, 5)
    /\ Trend.trend = "volatile"
    /\ Trend.changePercent = Num(4500, 10)

\* C20: the confidence of every trend getLiquidityTrend returns is a number from 0
\* to 1 and not above 0.95.
C20_ConfidenceInRange ==
    (lastOp = "getLiquidityTrend" /\ returned # <<>>) =>
        /\ NumGte(Trend.confidence, Num(0, 1))
        /\ NumGte(Num(1, 1), Trend.confidence)
        /\ NumGte(Num(19, 20), Trend.confidence)

\* ten points of the same liquidity: the confidence is 0 / 0
C20_Witness ==
    /\ lastOp = "getLiquidityTrend"
    /\ returned # <<>>
    /\ Trend.dataPoints = Ramp(10, 200, 0)
    /\ IsNaN(Trend.confidence)

----------------------------------------------------------------------------
(* Properties of the oracle client *)

\* the result of the last validatePrice call
Verdict == returned[1]

\* C21: when validatePrice has a fresh oracle price, isValid holds exactly when
\* |candidate - reference| / reference is at most the deviation threshold, the
\* threshold itself included.
C21_InclusiveThreshold ==
    [][lastOp' = "validatePrice" =>
         LET oraclePrice == getOraclePrice(args'.tokenMint, now).price
         IN  (/\ oraclePrice # <<>>
              /\ AgeMs(now' - oraclePrice[1].timestamp) <= maxPriceAge
              /\ ~args'.faulty) =>
                 (Verdict'.isValid <=>
                    100 * Abs(args'.price - oraclePrice[1].price)
                      <= deviationThreshold * oraclePrice[1].price)]_vars

\* a candidate exactly 5% away from the reading was accepted
C21_Witness ==
    /\ lastOp = "validatePrice"
    /\ args.price = 105
    /\ Verdict.isValid
    /\ ocPriceCache["SOL"].price = 100
    /\ NumEq(Verdict.priceDeviation, Whole(deviationThreshold))

\* C22: validatePrice returns a result and does not throw; without an oracle price,
\* with an oracle price older than maxPriceAge, with a deviation above the threshold
\* and on an internal error the result has isValid = false and a reason; the
\* connection flags of the client stay as they were.
C22_StructuredInvalid ==
    [][lastOp' = "validatePrice" =>
         LET oraclePrice == getOraclePrice(args'.tokenMint, now).price
             missing == oraclePrice = <<>>
             stale == ~missing /\ AgeMs(now' - oraclePrice[1].timestamp) > maxPriceAge
             deviating == ~missing /\ 100 * Abs(args'.price - oraclePrice[1].price)
                                        > deviationThreshold * oraclePrice[1].price
         IN  /\ ~raised'
             /\ Len(returned') = 1
             /\ Verdict'.isValid \in BOOLEAN
             /\ (missing \/ stale \/ deviating \/ args'.faulty) =>
                   (~Verdict'.isValid /\ Verdict'.reason # "")
             /\ pythConnected' = pythConnected
             /\ switchboardConnected' = switchboardConnected]_vars

\* the fetch took longer than maxPriceAge and the result says the price is stale
C22_Witness ==
    /\ lastOp = "validatePrice"
    /\ args.delay > 0
    /\ ~Verdict.isValid
    /\ Verdict.reason = "Oracle price is stale"
    /\ NumGt(Verdict.staleness, Whole(30))
    /\ ~raised
    /\ pythConnected

\* C23: with both sources connected and reporting different prices, validatePrice
\* measures the candidate against the confidence-weighted consensus of the two
\* readings.
C23_ConsensusReference ==
    (/\ lastOp = "validatePrice"
     /\ pythConnected /\ switchboardConnected
     /\ feeds["pyth"] # <<>> /\ feeds["switchboard"] # <<>>
     /\ feeds["pyth"][1].price # feeds["switchboard"][1].price
     /\ Verdict.reason \in {"", "Price deviation exceeds threshold"}) =>
        LET consensus == calculateConsensus(CollectPrices(args.tokenMint, now)).price
            deviation == NumAbs(NumDiv(NumAdd(Whole(args.price), NumNeg(consensus)),
                                       consensus))
        IN  /\ NumEq(Verdict.priceDeviation, NumMul(Whole(100), deviation))
            /\ Verdict.isValid <=> NumGte(Num(deviationThreshold, 100), deviation)

\* Pyth reports 100 and Switchboard 120: a candidate of 95 is accepted with a
\* deviation of 5%, measured against the Pyth reading alone
C23_Witness ==
    /\ lastOp = "validatePrice"
    /\ pythConnected /\ switchboardConnected
    /\ feeds["pyth"] = <<Feed(100, 1)>>
    /\ feeds["switchboard"] = <<Feed(120, 1)>>
    /\ args.price = 95
    /\ Verdict.isValid
    /\ NumEq(Verdict.priceDeviation, Whole(5))
    /\ ocPriceCache["SOL"].source = "pyth"

\* the value of the last getMultiOraclePrice call
Multi == returned[1]

\* C25: the consensus of two readings with the same price has that price and
\* agreement 1, whatever their confidence intervals.
C25_IdenticalPrices ==
    (/\ lastOp = "getMultiOraclePrice"
     /\ returned # <<>>
     /\ Len(Multi.prices) = 2
     /\ Multi.prices[1].price = Multi.prices[2].price) =>
        /\ NumEq(Multi.consensus.price, Whole(Multi.prices[1].price))
        /\ NumEq(Multi.consensus.agreement, Whole(1))

\* two readings of 100 with confidence intervals of 100: the consensus is 0 / 0
C25_Witness ==
    /\ lastOp = "getMultiOraclePrice"
    /\ returned # <<>>
    /\ Len(Multi.prices) = 2
    /\ Multi.prices[1].price = 100 /\ Multi.prices[1].confidence = 100
    /\ Multi.prices[2].price = 100 /\ Multi.prices[2].confidence = 100
    /\ IsNaN(Multi.consensus.price)
    /\ IsNaN(Multi.consensus.agreement)

\* C26: the consensus of a single reading has the price of that reading and
\* agreement 1.
C26_SingleReading ==
    (/\ lastOp = "getMultiOraclePrice"
     /\ returned # <<>>
     /\ Len(Multi.prices) = 1) =>
        /\ Multi.consensus.price = Whole(Multi.prices[1].price)
        /\ Multi.consensus.agreement = Whole(1)

\* Switchboard alone reported 100 with a confidence interval of 150
C26_Witness ==
    /\ lastOp = "getMultiOraclePrice"
    /\ returned # <<>>
    /\ Len(Multi.prices) = 1
    /\ Multi.prices[1].source = "switchboard"
    /\ Multi.prices[1].confidence = 150
    /\ Multi.consensus.price = Whole(100)
    /\ Multi.consensus.agreement = Whole(1)

\* the enhancedPoolUpdate events among events
EnhancedIn(events) == {k \in DOMAIN events : events[k].type = "enhancedPoolUpdate"}

\* the arbitrageOpportunity events among events, in order
OpportunitiesIn(events) == SelectSeq(events, LAMBDA e : e.type = "arbitrageOpportunity")

Components == CostComponents(args.buyDex, args.sellDex, hour)

\* C28: the cost estimate of finite prices and liquidities >= 0 on any two venue ids
\* returns without raising, every term is >= 0, and the total is the sum of the terms.
C28_CostsComplete ==
    lastOp = "calculateTotalCosts" =>
        /\ ~raised
        /\ returned # <<>>
        /\ \A name \in DOMAIN Components : Components[name] >= 0
        /\ returned[1] = Components.swapFeeBuy + Components.swapFeeSell + Components.gasCost
                           + Components.slippageBuy + Components.slippageSell
                           + Components.protocolFeeBuy + Components.protocolFeeSell
                           + Components.mevProtection

\* the estimate for a buy venue named "constructor" at price 100 raised
C28_Witness ==
    /\ lastOp = "calculateTotalCosts"
    /\ args.buyDex.dex = "constructor"
    /\ args.buyDex.price = 100
    /\ args.sellDex.dex = "Raydium"
    /\ raised
    /\ returned = <<>>

\* the pairs of cache a scan evaluates: different venues, in loop order
PairsOf(cache) ==
    {p \in (DOMAIN cache) \X (DOMAIN cache) : p[1] < p[2] /\ cache[p[1]].dex # cache[p[2]].dex}

\* the pairs whose evaluation raises
RaisingPairs(cache) ==
    {p \in PairsOf(cache) : TotalCostsRaise(ToDexPrice(cache[p[1]]), ToDexPrice(cache[p[2]]))}

\* the pairs whose evaluation returns an opportunity at or above the threshold
ProfitablePairs(cache, t, h, threshold) ==
    {p \in PairsOf(cache) \ RaisingPairs(cache) :
        LET opportunity == calculateRealArbitrage(ToDexPrice(cache[p[1]]),
                                                  ToDexPrice(cache[p[2]]), t, h)
        IN  opportunity # <<>> /\ PctGte(opportunity[1].profitPercentage, threshold)}

\* C27: a pair whose evaluation raises is skipped: the scan does not raise, it emits
\* the opportunity of every other pair that has one, and the scanner goes on running
\* with the cache as it was when the scan began.
C27_RaisingPairSkipped ==
    [][lastOp' \in {"handlePoolUpdate", "periodicScan"} =>
          /\ ~raised'
          /\ Len(OpportunitiesIn(out'))
               = Cardinality(ProfitablePairs(priceCache', now, hour, minProfitThreshold))
          /\ \A p \in ProfitablePairs(priceCache', now, hour, minProfitThreshold) :
                \E k \in DOMAIN out' :
                    /\ out'[k].type = "arbitrageOpportunity"
                    /\ <<out'[k].data>> = calculateRealArbitrage(ToDexPrice(priceCache'[p[1]]),
                                                               ToDexPrice(priceCache'[p[2]]),
                                                               now, hour)
          /\ priceCache' = IF lastOp' = "periodicScan" THEN priceCache
                           ELSE CacheSet(priceCache, out'[1].data)
          /\ UNCHANGED <<scIsRunning, scanInterval, scTimers, wsSubscribed>>]_vars

\* a scan over three venues: the two pairs with the venue "constructor" raised, and the
\* opportunity between Raydium and Orca was emitted
C27_Witness ==
    /\ lastOp \in {"handlePoolUpdate", "periodicScan"}
    /\ Len(priceCache) = 3
    /\ Cardinality(RaisingPairs(priceCache)) = 2
    /\ Len(OpportunitiesIn(out)) = 1
    /\ {OpportunitiesIn(out)[1].data.buyDex, OpportunitiesIn(out)[1].data.sellDex}
         = {"Raydium", "Orca"}
    /\ scIsRunning
    /\ scanInterval

\* C30: one pool update is handled in one step, in this order: the cache entry of its
\* key is overwritten, priceUpdate is emitted, and the opportunities of a scan over
\* the cache that holds the new observation are emitted, all before the next update
\* or timer tick.
C30_SingleOrderedStep ==
    [][lastOp' = "handlePoolUpdate" =>
          /\ Len(out') >= 1
          /\ out'[1].type = "priceUpdate"
          /\ priceCache' = CacheSet(priceCache, out'[1].data)
          /\ \E i \in DOMAIN priceCache' : priceCache'[i] = out'[1].data
          /\ Tail(out') = OpportunityEvents(
                             checkArbitrageOpportunities(priceCache', now, hour,
                                                         minProfitThreshold))
          /\ UNCHANGED <<scIsRunning, scanInterval, scTimers, wsSubscribed, envVars>>]_vars

\* the update came first and an opportunity that trades at its price came after it
C30_Witness ==
    /\ lastOp = "handlePoolUpdate"
    /\ Len(out) >= 2
    /\ out[1].type = "priceUpdate"
    /\ out[2].type = "arbitrageOpportunity"
    /\ out[1].data.dex \in {out[2].data.buyDex, out[2].data.sellDex}
    /\ out[1].data.price \in {out[2].data.buyPrice, out[2].data.sellPrice}
    /\ \E i \in DOMAIN priceCache : priceCache[i] = out[1].data

\* the component that owns the handler of the last resumed call holds no
\* subscription for it any more
OwnerStopped ==
    \/ /\ lastOp = "handlePoolAccountChange.resume"
       /\ args.pool \notin pmSubscriptions
    \/ /\ lastOp = "handleOraclePriceUpdate.resume"
       /\ (args.source \o ":" \o args.tokenMint) \notin ocSubscriptions

\* C29: a handler that resumes after its component was stopped, unsubscribed or
\* disconnected writes nothing into monitoredPools or priceCache and emits nothing.
C29_LateResultDiscarded ==
    [][OwnerStopped' =>
          /\ pmMonitoredPools' = pmMonitoredPools
          /\ ocPriceCache' = ocPriceCache
          /\ inner' = <<>>
          /\ out' = <<>>]_vars

\* stopAllMonitoring() returned while the account change of pool 58oQ was being
\* parsed; the handler then stored the snapshot and poolUpdate went out
C29_Witness ==
    /\ lastOp = "handlePoolAccountChange.resume"
    /\ ~pmIsMonitoring
    /\ ~mmIsRunning
    /\ pmSubscriptions = {}
    /\ listeners[PoolKey("58oQ")] = 0
    /\ "58oQ" \in DOMAIN pmMonitoredPools
    /\ Len(inner) = 1
    /\ inner[1].type = "poolUpdate"
    /\ Len(out) = 1

\* the pairs that were profitable before the step and whose two observations the
\* step left as they were
StablePairs ==
    {p \in ProfitablePairs(priceCache, now, hour, minProfitThreshold) :
        /\ p[1] \in DOMAIN priceCache' /\ p[2] \in DOMAIN priceCache'
        /\ priceCache'[p[1]] = priceCache[p[1]]
        /\ priceCache'[p[2]] = priceCache[p[2]]}

\* C31: nothing remembers what was emitted: a scan, whether an update for any key or
\* the timer started it, emits the opportunity of every pair that was profitable
\* before and still is.
C31_EmittedAgain ==
    [][lastOp' \in {"handlePoolUpdate", "periodicScan"} =>
          \A p \in StablePairs :
              \E k \in DOMAIN out' :
                  /\ out'[k].type = "arbitrageOpportunity"
                  /\ <<out'[k].data>> = calculateRealArbitrage(ToDexPrice(priceCache[p[1]]),
                                                             ToDexPrice(priceCache[p[2]]),
                                                             now, hour)]_vars

\* an update of the Raydium pool 7qhG made the scan emit the opportunity between
\* 58oQ and EGZ7 again
C31_Witness ==
    /\ lastOp = "handlePoolUpdate"
    /\ out[1].data.pool = "7qhG"
    /\ \E k \in DOMAIN out :
          /\ out[k].type = "arbitrageOpportunity"
          /\ out[k].data.pair \in {PairLabel("58oQ", "EGZ7"), PairLabel("EGZ7", "58oQ")}

-----------------------------------------------------------------------------
(* LiquidityMonitor: the pool_drain rule at its boundary                    *)

\* histories of pool 58oQ at a constant 200, shorter and longer than the window
DrainLengths == {0, 3, 4, 8}
DrainHistories == {Seed(n, 200, 0) : n \in DrainLengths}

\* totalLiquidity of the updates, in thousands: drops of 25%, 20% and 15% from 200,
\* no change, and a rise
DrainLevels == {150, 160, 170, 200, 250}

InitDrain == LiquidityStart(DrainHistories)

NextDrain ==
    \/ setLiquidityThreshold("58oQ", DefaultThreshold)
    \/ \E level \in DrainLevels : MayUpdate /\ updateLiquidityData("58oQ", level)

SpecDrain == InitDrain /\ [][NextDrain]_vars

\* the drop between the first and the last of the last five points is 20% or more
DropAtLeastFifth(history) ==
    Len(history) >= 5 /\ NumGte(calculateLiquidityDrop(SliceLast(history, 5)), Num(2, 10))

\* C32: an update on a pool with a configured threshold emits one pool_drain alert,
\* of severity critical, when the pool has five points or more and the liquidity
\* dropped by 20% or more, the boundary included, between the first and the last of
\* its last five points; otherwise it emits none.
C32_DrainAtBoundary ==
    (lastOp = "updateLiquidityData" /\ UpdatedPool \in DOMAIN liquidityThresholds) =>
        LET alerts == AlertsIn(out)
            drains == {k \in DOMAIN alerts : alerts[k].type = "pool_drain"}
        IN  /\ \A k \in drains : alerts[k].severity = "critical"
            /\ Cardinality(drains) =
                   (IF DropAtLeastFifth(liquidityHistory[UpdatedPool]) THEN 1 ELSE 0)

\* an update to 160 completed a window that starts at 200, a drop of exactly 20%,
\* on a pool with a configured threshold, and no pool_drain alert was emitted
C32_Witness ==
    /\ lastOp = "updateLiquidityData"
    /\ UpdatedPool \in DOMAIN liquidityThresholds
    /\ LET history == liquidityHistory[UpdatedPool]
       IN  /\ Len(history) >= 5
           /\ history[Len(history) - 4].liquidity = 200
           /\ history[Len(history)].liquidity = 160
    /\ AlertCount(AlertsIn(out), "pool_drain") = 0

-----------------------------------------------------------------------------
(* ArbitrageScanner: the slippage rate of the two observations of a pair     *)

\* liquidity in thousands: zero, and each tier boundary with its two neighbours
SlippageLiquidities ==
    {0, 1, 999, 1000, 1001, 9999, 10000, 10001, 49999, 50000, 50001,
     99999, 100000, 100001, 200000}

\* the two calls of calculateSlippageFromLiquidity in calculateArbitrageOpportunity
CalculateSlippages(liquidityA, liquidityB) ==
    /\ lastOp' = "calculateSlippageFromLiquidity"
    /\ args' = <<liquidityA, liquidityB>>
    /\ raised' = FALSE
    /\ returned' = <<calculateSlippageFromLiquidity(liquidityA),
                     calculateSlippageFromLiquidity(liquidityB)>>
    /\ out' = <<>>
    /\ inner' = <<>>
    /\ UNCHANGED <<scannerVars, envVars, coordinatorVars>>

NextSlippage ==
    \E liquidityA, liquidityB \in SlippageLiquidities : CalculateSlippages(liquidityA, liquidityB)

SpecSlippage == InitSystem /\ [][NextSlippage]_vars

\* the lowest liquidity (thousands) of each tier, with the rate (1e-4) of the tier
SlippageTiers == {<<100000, 10>>, <<50000, 15>>, <<10000, 20>>, <<1000, 50>>, <<0, 100>>}

\* the rate of the tier with the highest lower end that the liquidity reaches
TierRate(liquidity) ==
    LET reached == {tier \in SlippageTiers : liquidity >= tier[1]}
        top == CHOOSE tier \in reached : \A other \in reached : other[1] <= tier[1]
    IN  top[2]

-----------------------------------------------------------------------------
(* ArbitrageScanner: start() and stop() interleaved                          *)

\* C34: whatever the order of the start() and stop() calls and of the completions
\* of start(), at most one rescan timer exists, and one exists only while isRunning
\* is true.
C34_OneTimerWhileRunning ==
    /\ scTimers <= 1
    /\ scTimers > 0 => scIsRunning

\* stop() ran while start() was waiting; start() then completed and set its timer on
\* a scanner that is not running
C34_Witness ==
    /\ lastOp = "scanner.start.settled"
    /\ ~raised
    /\ ~scIsRunning
    /\ scanInterval
    /\ scTimers = 1

\* the events of a handler that report a price or an opportunity
PriceEventsIn(events) ==
    {k \in DOMAIN events : events[k].type \in {"priceUpdate", "arbitrageOpportunity"}}

\* C35: from the return of stop() until start() is called again, isRunning being
\* false all the while, the price cache is empty and no handler emits a priceUpdate
\* or an arbitrageOpportunity event.
C35_QuietWhenStopped ==
    ~scIsRunning => (priceCache = <<>> /\ PriceEventsIn(out) = {})

\* stop() returned while start() was waiting, start() completed, and a pool update
\* delivered afterwards was cached and emitted as priceUpdate
C35_Witness ==
    /\ lastOp = "handlePoolUpdate"
    /\ ~scIsRunning
    /\ scStarting = 0
    /\ priceCache # <<>>
    /\ PriceEventsIn(out) # {}

-----------------------------------------------------------------------------
(* ArbitrageScanner: the trade-size bounds of an opportunity                 *)

\* C39: every opportunity a scan emits has minimumTradeSize <= maximumTradeSize,
\* whatever the liquidities, zero included, of its two observations.
C39_TradeSizeBounds ==
    \A k \in DOMAIN out :
        out[k].type = "arbitrageOpportunity" =>
            out[k].data.minimumTradeSize <= out[k].data.maximumTradeSize

\* a scan emitted an opportunity between two observations, one of liquidity zero:
\* its minimum is the floor of 1000 and its maximum is 5% of zero
C39_Witness ==
    /\ lastOp = "periodicScan"
    /\ \E i \in DOMAIN priceCache : priceCache[i].liquidity = 0
    /\ \E k \in DOMAIN out :
          /\ out[k].type = "arbitrageOpportunity"
          /\ out[k].data.minimumTradeSize = 1000
          /\ out[k].data.maximumTradeSize = 0

-----------------------------------------------------------------------------
(* MonitoringManager: the event counters under relayed events and cleanup()  *)

\* LiquidityMonitor.cleanup(): a map of lists after the entries stamped 24 hours
\* ago or earlier are filtered out of every list
FilterRecent(lists, t) ==
    [pool \in DOMAIN lists |->
        SelectSeq(lists[pool], LAMBDA x : x.timestamp > t - TimeframeTicks("24h"))]

\* cleanup() leaving totalEvents as it is
CleanupKeepsTotal ==
    /\ liquidityHistory' = FilterRecent(liquidityHistory, now)
    /\ activeAlerts' = FilterRecent(activeAlerts, now)
    /\ eventStats' = EmptyMap
    /\ Observe("cleanup", FALSE, <<>>)
    /\ UNCHANGED <<totalEvents, mmIsInitialized, mmIsRunning, mmMonitoredPools, pending,
                   poolMonitorVars, oracleVars, lmIsMonitoring, lmMonitoringInterval,
                   liquidityThresholds, listeners, scannerVars, envVars>>

\* cleanup(): liquidityMonitor.cleanup(), eventStats.clear(), totalEvents = 0
Cleanup ==
    /\ liquidityHistory' = FilterRecent(liquidityHistory, now)
    /\ activeAlerts' = FilterRecent(activeAlerts, now)
    /\ eventStats' = EmptyMap
    /\ totalEvents' = 0
    /\ Observe("cleanup", FALSE, <<>>)
    /\ UNCHANGED <<mmIsInitialized, mmIsRunning, mmMonitoredPools, pending, poolMonitorVars,
                   oracleVars, lmIsMonitoring, lmMonitoringInterval, liquidityThresholds,
                   listeners, scannerVars, envVars>>

NextStats ==
    \/ Initialize
    \/ \E i \in 1..MaxPending, pythOk, switchboardOk \in BOOLEAN :
          InitializeSettle(i, pythOk, switchboardOk)
    \/ StartPoolMonitoring("58oQ")
    \/ \E i \in 1..MaxPending, fetched \in BOOLEAN, snapshot \in MonitorSnapshots :
          StartPoolMonitoringSettle(i, fetched, snapshot)
    \/ StartAllMonitoring
    \/ \E parsed \in BOOLEAN, newState \in MonitorSnapshots :
          MayRelay /\ handlePoolAccountChange("58oQ", parsed, newState)
    \/ MayRelay /\ performHealthChecks
    \/ \E source \in Sources, parsed \in BOOLEAN :
          MayRelay /\ handleOraclePriceUpdate(source, "SOL", parsed,
                                              OraclePrice("SOL", source, 150, 1, now))
    \/ Cleanup

SpecStats == InitMonitor /\ [][NextStats]_vars

RECURSIVE SumOfCounters(_)
\* the sum of the counters of an event statistics map
SumOfCounters(stats) ==
    IF DOMAIN stats = {} THEN 0
    ELSE LET type == CHOOSE t \in DOMAIN stats : TRUE
         IN  stats[type] + SumOfCounters(MapDelete(stats, {type}))

\* C40: totalEvents equals the sum of the counters of eventStats in every state; a
\* cleanup() leaves both at zero and changes neither isRunning nor isInitialized.
C40_TotalIsSum ==
    [][/\ totalEvents' = SumOfCounters(eventStats')
       /\ lastOp' = "cleanup" =>
             /\ totalEvents' = 0
             /\ eventStats' = EmptyMap
             /\ mmIsRunning' = mmIsRunning
             /\ mmIsInitialized' = mmIsInitialized]_vars

\* cleanup() ran on a running, initialized coordinator that had relayed and counted
\* the update of an oracle price, and left the counters at zero
C40_Witness ==
    /\ lastOp = "cleanup"
    /\ mmIsRunning /\ mmIsInitialized
    /\ ocPriceCache # EmptyMap
    /\ totalEvents = 0
    /\ eventStats = EmptyMap

-----------------------------------------------------------------------------
(* PoolStateMonitor: subscribeToPool and unsubscribeFromPool across their    *)
(* awaits, with every account-change listener kept by the id it was given    *)

MaxSubscribing == 2
MaxListeners == 3

\* the ids of the listeners that are registered for a pool
LiveListeners(registry, pool) ==
    {id \in DOMAIN registry : registry[id].pool = pool /\ registry[id].live}

\* unsubscribeFromPool up to await connection.removeAccountChangeListener(id): the
\* registry without what subscriptions.get(pool) names, and whether there was an id
Unregistered(pool) ==
    IF pool \in DOMAIN pmSubscriptionIds
    THEN [pmListeners EXCEPT ![pmSubscriptionIds[pool]].live = FALSE]
    ELSE pmListeners

\* listeners, counting the registered listeners of a pool again
Recount(registry, pool) ==
    [listeners EXCEPT ![PoolKey(pool)] = Cardinality(LiveListeners(registry, pool))]

\* subscribeToPool(pool, dex), up to the first await that waits for the network:
\* the one inside unsubscribeFromPool when the pool has a recorded id, and
\* fetchPoolState otherwise
subscribeToPool(pool) ==
    /\ Len(pending) < MaxSubscribing
    /\ pmListeners' = Unregistered(pool)
    /\ listeners' = Recount(pmListeners', pool)
    /\ pending' = Append(pending,
                         Call("subscribeToPool", pool,
                              IF pool \in DOMAIN pmSubscriptionIds THEN "remove" ELSE "fetch"))
    /\ Observe("subscribeToPool", FALSE, <<>>)
    /\ UNCHANGED <<mmIsInitialized, mmIsRunning, mmMonitoredPools, statsVars, poolMonitorVars,
                   oracleVars, liquidityVars, pmSubscriptionIds, wsVars, scannerVars,
                   now, hour, feeds>>

\* unsubscribeFromPool(pool), up to its await
unsubscribeFromPool(pool) ==
    /\ IF pool \in DOMAIN pmSubscriptionIds
       THEN /\ Len(pending) < MaxSubscribing
            /\ pending' = Append(pending, Call("unsubscribeFromPool", pool, "remove"))
       ELSE UNCHANGED pending
    /\ pmListeners' = Unregistered(pool)
    /\ listeners' = Recount(pmListeners', pool)
    /\ Observe("unsubscribeFromPool", FALSE, <<>>)
    /\ UNCHANGED <<mmIsInitialized, mmIsRunning, mmMonitoredPools, statsVars, poolMonitorVars,
                   oracleVars, liquidityVars, pmSubscriptionIds, wsVars, scannerVars,
                   now, hour, feeds>>

\* unsubscribeFromPool after its await, called by its owner or by subscribeToPool:
\* subscriptions.delete(pool) and monitoredPools.delete(pool)
unsubscribeFromPoolResume(i) ==
    /\ i \in DOMAIN pending
    /\ pending[i].op \in {"subscribeToPool", "unsubscribeFromPool"}
    /\ pending[i].stage = "remove"
    /\ LET pool == pending[i].pool
       IN  /\ pmSubscriptionIds' = MapDelete(pmSubscriptionIds, {pool})
           /\ pmSubscriptions' = pmSubscriptions \ {pool}
           /\ pmMonitoredPools' = MapDelete(pmMonitoredPools, {pool})
    /\ pending' = IF pending[i].op = "subscribeToPool"
                  THEN [pending EXCEPT ![i].stage = "fetch"]
                  ELSE RemoveAt(pending, i)
    /\ Observe("unsubscribeFromPool.resume", FALSE, <<>>)
    /\ UNCHANGED <<mmIsInitialized, mmIsRunning, mmMonitoredPools, statsVars, pmIsMonitoring,
                   pmHealthCheckInterval, oracleVars, liquidityVars, listeners, pmListeners,
                   wsVars, scannerVars, now, hour, feeds>>

\* subscribeToPool after await fetchPoolState: the snapshot is stored when there is
\* one, a listener is registered, and its id is recorded under the pool
subscribeToPoolSettle(i, fetched, snapshot) ==
    /\ i \in DOMAIN pending
    /\ pending[i].op = "subscribeToPool"
    /\ pending[i].stage = "fetch"
    /\ Len(pmListeners) < MaxListeners
    /\ pending' = RemoveAt(pending, i)
    /\ LET pool == pending[i].pool
       IN  /\ pmMonitoredPools' = IF fetched THEN MapSet(pmMonitoredPools, pool, snapshot)
                                  ELSE pmMonitoredPools
           /\ pmListeners' = Append(pmListeners, [pool |-> pool, live |-> TRUE])
           /\ listeners' = Recount(pmListeners', pool)
           /\ pmSubscriptionIds' = MapSet(pmSubscriptionIds, pool, Len(pmListeners'))
           /\ pmSubscriptions' = pmSubscriptions \cup {pool}
           /\ Dispatch("subscribeToPool.settled",
                       <<Raised("poolMonitor", "poolSubscribed", [poolAddress |-> pool])>>,
                       <<>>, <<>>)
    /\ UNCHANGED <<mmIsInitialized, mmIsRunning, mmMonitoredPools, pmIsMonitoring,
                   pmHealthCheckInterval, oracleVars, liquidityVars, wsVars, scannerVars,
                   now, hour, feeds>>

NextSubscribe ==
    \/ subscribeToPool("58oQ")
    \/ unsubscribeFromPool("58oQ")
    \/ \E i \in 1..MaxSubscribing : unsubscribeFromPoolResume(i)
    \/ \E i \in 1..MaxSubscribing, fetched \in BOOLEAN, snapshot \in SystemSnapshots :
          subscribeToPoolSettle(i, fetched, snapshot)

SpecSubscribe == InitSystem /\ [][NextSubscribe]_vars

\* C36: in every state each pool has at most one registered account-change listener,
\* and every registered listener is the one the subscriptions map records for its
\* pool, also when subscribeToPool is called again for a pool before an earlier call
\* has returned.
C36_OneRecordedListener ==
    \A id \in DOMAIN pmListeners :
        pmListeners[id].live =>
            /\ LiveListeners(pmListeners, pmListeners[id].pool) = {id}
            /\ pmListeners[id].pool \in DOMAIN pmSubscriptionIds
            /\ pmSubscriptionIds[pmListeners[id].pool] = id

\* two calls of subscribeToPool for pool 58oQ overlapped and both have returned: two
\* listeners are registered and the map records the second
C36_Witness ==
    /\ lastOp = "subscribeToPool.settled"
    /\ pending = <<>>
    /\ LiveListeners(pmListeners, "58oQ") = {1, 2}
    /\ pmSubscriptionIds["58oQ"] = 2

-----------------------------------------------------------------------------
(* SolanaWebSocketClient: connections, automatic reconnection and the        *)
(* subscriptions map.  A socket is "connecting", "open", "closing" (close()  *)
(* was called on it while open), "aborted" (close() was called on it while   *)
(* connecting) or "closed".  The handlers of every socket act on the fields  *)
(* of the one client.  subscriptionId, which only handleAccountUpdate reads, *)
(* and the 10 s timeout of connect() are left out.                           *)

MaxSockets == 3
MaxRequestId == 3

\* config.maxReconnectAttempts
maxReconnectAttempts == 2

SocketPools == {"58oQ", "EGZ7"}

\* this.ws && this.ws.readyState === WebSocket.OPEN
IsOpen(socks, cur) == cur # 0 /\ socks[cur] = "open"

\* subscriptions.set(`${requestId}`, {poolAddress, ...}): a new key goes last, a key
\* the map holds keeps its place
SetEntry(subs, requestId, pool) ==
    IF \E k \in DOMAIN subs : subs[k].requestId = requestId
    THEN [k \in DOMAIN subs |->
             IF subs[k].requestId = requestId
             THEN [requestId |-> requestId, pool |-> pool] ELSE subs[k]]
    ELSE Append(subs, [requestId |-> requestId, pool |-> pool])

\* subscribeToPoolAccount(pool, dex) on a client with these fields, up to the point
\* where it returns, throws or waits for a new socket; t is what Date.now() returns.
\* On an open socket the entry is stored and the request sent.  Otherwise it awaits
\* connect(): when isConnecting is set connect() returns at once, the entry is
\* stored and ws.send throws; when not, connect() creates a socket (awaits names it).
SubscribeStart(socks, cur, connecting, subs, pool, t) ==
    IF IsOpen(socks, cur)
    THEN [sockets |-> socks, ws |-> cur, isConnecting |-> connecting,
          subscriptions |-> SetEntry(subs, t, pool), awaits |-> 0, threw |-> FALSE]
    ELSE IF connecting
    THEN [sockets |-> socks, ws |-> cur, isConnecting |-> connecting,
          subscriptions |-> SetEntry(subs, t, pool), awaits |-> 0, threw |-> TRUE]
    ELSE [sockets |-> Append(socks, "connecting"), ws |-> Len(socks) + 1,
          isConnecting |-> TRUE, subscriptions |-> subs, awaits |-> Len(socks) + 1,
          threw |-> FALSE]

\* a call suspended at an await: the owner's subscribeToPoolAccount (position 0) or a
\* resubscribeAll loop about to visit the entry at position; it waits for a socket,
\* or its promise is settled ("resolved", "rejected") or it is ready to go on
WsCall(op, pool, position, socket, status, before) ==
    [op |-> op, pool |-> pool, position |-> position, socket |-> socket, status |-> status,
     before |-> before]

\* no call can go on before a socket event: continuations of settled promises run
\* before any timer, socket event or new call of the owner
Quiescent == \A i \in DOMAIN wsCalls : wsCalls[i].status = "waiting"

\* the calls after socket k opened or failed
Settle(calls, k, status) ==
    [i \in DOMAIN calls |->
        IF calls[i].status = "waiting" /\ calls[i].socket = k
        THEN [calls[i] EXCEPT !.status = status] ELSE calls[i]]

\* the values Date.now() may return now
ClockReads == {t \in {wsClock, wsClock + 1} : t <= MaxRequestId}

\* the pools that have an entry
PoolsIn(subs) == {subs[k].pool : k \in DOMAIN subs}

\* connect(), called by the owner; its promise is not followed
wsConnect ==
    /\ Quiescent
    /\ IF wsIsConnecting \/ IsOpen(sockets, ws)
       THEN UNCHANGED <<sockets, ws, wsIsConnecting>>
       ELSE /\ Len(sockets) < MaxSockets
            /\ sockets' = Append(sockets, "connecting")
            /\ ws' = Len(sockets) + 1
            /\ wsIsConnecting' = TRUE
    /\ Observe("ws.connect", FALSE, <<>>)
    /\ UNCHANGED <<reconnectAttempts, reconnectTimers, heartbeatInterval, subscriptions,
                   wsClock, wsCalls, pmIdVars, now, hour, feeds, scannerVars,
                   coordinatorVars>>

\* subscribeToPoolAccount(pool, dex), called by the owner
wsSubscribeToPoolAccount(pool, t) ==
    /\ Quiescent
    /\ LET r == SubscribeStart(sockets, ws, wsIsConnecting, subscriptions, pool, t)
       IN  /\ Len(r.sockets) <= MaxSockets
           /\ sockets' = r.sockets
           /\ ws' = r.ws
           /\ wsIsConnecting' = r.isConnecting
           /\ subscriptions' = r.subscriptions
           /\ wsClock' = IF r.awaits = 0 THEN t ELSE wsClock
           /\ wsCalls' = IF r.awaits = 0 THEN wsCalls
                         ELSE Append(wsCalls, WsCall("subscribeToPoolAccount", pool, 0,
                                                     r.awaits, "waiting", {}))
           /\ Observe("ws.subscribeToPoolAccount", r.threw, <<>>)
    /\ UNCHANGED <<reconnectAttempts, reconnectTimers, heartbeatInterval, pmIdVars,
                   now, hour, feeds, scannerVars, coordinatorVars>>

\* subscribeToPoolAccount after await this.connect(), for the owner
wsSubscribeResume(i, t) ==
    /\ i \in DOMAIN wsCalls
    /\ wsCalls[i].op = "subscribeToPoolAccount"
    /\ wsCalls[i].status \in {"resolved", "rejected"}
    /\ wsCalls' = RemoveAt(wsCalls, i)
    /\ IF wsCalls[i].status = "rejected"
       THEN /\ UNCHANGED <<subscriptions, wsClock>>
            /\ Observe("ws.subscribeToPoolAccount.resume", TRUE, <<>>)
       ELSE /\ subscriptions' = SetEntry(subscriptions, t, wsCalls[i].pool)
            /\ wsClock' = t
            /\ Observe("ws.subscribeToPoolAccount.resume", ~IsOpen(sockets, ws), <<>>)
    /\ UNCHANGED <<sockets, ws, wsIsConnecting, reconnectAttempts, reconnectTimers,
                   heartbeatInterval, pmIdVars, now, hour, feeds, scannerVars,
                   coordinatorVars>>

\* close(), called by the owner
wsClose ==
    /\ Quiescent
    /\ heartbeatInterval' = FALSE
    /\ sockets' = IF ws = 0 THEN sockets
                  ELSE [sockets EXCEPT ![ws] = CASE sockets[ws] = "connecting" -> "aborted"
                                                 [] sockets[ws] = "open" -> "closing"
                                                 [] OTHER -> sockets[ws]]
    /\ ws' = 0
    /\ subscriptions' = <<>>
    /\ Observe("ws.close", FALSE, <<>>)
    /\ UNCHANGED <<wsIsConnecting, reconnectAttempts, reconnectTimers, wsClock, wsCalls,
                   pmIdVars, now, hour, feeds, scannerVars, coordinatorVars>>

\* scheduleReconnect(): the counter, the timers and the event it leaves
scheduleReconnect ==
    IF reconnectAttempts >= maxReconnectAttempts
    THEN [attempts |-> reconnectAttempts, timers |-> reconnectTimers,
          events |-> <<Event("maxReconnectAttemptsReached", <<>>)>>]
    ELSE [attempts |-> reconnectAttempts + 1, timers |-> reconnectTimers + 1,
          events |-> <<>>]

\* the 'close' handler of socket k, after the 'error' handler when the connection
\* attempt failed (failed): the socket never opened or was closed while connecting
SocketCloses(k, failed) ==
    /\ Quiescent
    /\ k \in DOMAIN sockets
    /\ sockets[k] \in (IF failed THEN {"connecting", "aborted"} ELSE {"open", "closing"})
    /\ sockets' = [sockets EXCEPT ![k] = "closed"]
    /\ wsIsConnecting' = FALSE
    /\ heartbeatInterval' = FALSE
    /\ reconnectAttempts' = scheduleReconnect.attempts
    /\ reconnectTimers' = scheduleReconnect.timers
    /\ wsCalls' = IF failed THEN Settle(wsCalls, k, "rejected") ELSE wsCalls
    /\ Observe(IF failed THEN "ws.error" ELSE "ws.closed", FALSE,
               (IF failed THEN <<Event("error", <<>>)>> ELSE <<>>) \o scheduleReconnect.events)
    /\ UNCHANGED <<ws, subscriptions, wsClock, pmIdVars, now, hour, feeds, scannerVars,
                   coordinatorVars>>

\* the setTimeout callback of scheduleReconnect, reconnectInterval after it was set:
\* connect()
reconnectTimer ==
    /\ Quiescent
    /\ reconnectTimers > 0
    /\ wsClock < MaxRequestId
    /\ reconnectTimers' = reconnectTimers - 1
    /\ wsClock' = wsClock + 1
    /\ IF wsIsConnecting \/ IsOpen(sockets, ws)
       THEN UNCHANGED <<sockets, ws, wsIsConnecting>>
       ELSE /\ Len(sockets) < MaxSockets
            /\ sockets' = Append(sockets, "connecting")
            /\ ws' = Len(sockets) + 1
            /\ wsIsConnecting' = TRUE
    /\ Observe("ws.reconnectTimer", FALSE, <<>>)
    /\ UNCHANGED <<reconnectAttempts, heartbeatInterval, subscriptions, wsCalls, pmIdVars,
                   now, hour, feeds, scannerVars, coordinatorVars>>

\* the 'open' handler of socket k: the counter is reset, the heartbeat set,
\* 'connected' emitted, resubscribeAll() run up to its first await, and the promise
\* of connect() resolved
SocketOpens(k, t) ==
    /\ Quiescent
    /\ k \in DOMAIN sockets
    /\ sockets[k] = "connecting"
    /\ reconnectAttempts' = 0
    /\ heartbeatInterval' = TRUE
    /\ LET opened == [sockets EXCEPT ![k] = "open"]
           settled == Settle(wsCalls, k, "resolved")
       IN  IF subscriptions = <<>>
           THEN /\ sockets' = opened
                /\ wsIsConnecting' = FALSE
                /\ wsCalls' = settled
                /\ UNCHANGED <<ws, subscriptions, wsClock>>
           ELSE LET r == SubscribeStart(opened, ws, FALSE, subscriptions,
                                        subscriptions[1].pool, t)
                IN  /\ Len(r.sockets) <= MaxSockets
                    /\ sockets' = r.sockets
                    /\ ws' = r.ws
                    /\ wsIsConnecting' = r.isConnecting
                    /\ subscriptions' = r.subscriptions
                    /\ wsClock' = IF r.awaits = 0 THEN t ELSE wsClock
                    /\ wsCalls' = Append(settled,
                                         WsCall("resubscribeAll", subscriptions[1].pool, 2,
                                                r.awaits,
                                                IF r.awaits = 0 THEN "ready" ELSE "waiting",
                                                PoolsIn(subscriptions)))
    /\ Observe("ws.open", FALSE, <<Event("connected", <<>>)>>)
    /\ UNCHANGED <<reconnectTimers, pmIdVars, now, hour, feeds, scannerVars, coordinatorVars>>

\* resubscribeAll() going on after an await: the subscribeToPoolAccount it waited
\* for stores its entry when it waited for a socket that opened; then the loop
\* visits the next entry of the map, or ends when there is none.  What
\* subscribeToPoolAccount throws is caught.
resubscribeAllStep(i, t) ==
    /\ i \in DOMAIN wsCalls
    /\ wsCalls[i].op = "resubscribeAll"
    /\ wsCalls[i].status # "waiting"
    /\ LET call == wsCalls[i]
           stored == IF call.status = "resolved"
                     THEN SetEntry(subscriptions, t, call.pool) ELSE subscriptions
       IN  IF call.position > Len(stored)
           THEN /\ subscriptions' = stored
                /\ wsClock' = IF call.status = "resolved" THEN t ELSE wsClock
                /\ wsCalls' = RemoveAt(wsCalls, i)
                /\ UNCHANGED <<sockets, ws, wsIsConnecting>>
                /\ lastOp' = "resubscribeAll.done"
                /\ args' = call.before
           ELSE LET r == SubscribeStart(sockets, ws, wsIsConnecting, stored,
                                        stored[call.position].pool, t)
                IN  /\ Len(r.sockets) <= MaxSockets
                    /\ sockets' = r.sockets
                    /\ ws' = r.ws
                    /\ wsIsConnecting' = r.isConnecting
                    /\ subscriptions' = r.subscriptions
                    /\ wsClock' = IF r.awaits = 0 \/ call.status = "resolved" THEN t
                                  ELSE wsClock
                    /\ wsCalls' = [wsCalls EXCEPT ![i] =
                                      WsCall("resubscribeAll", stored[call.position].pool,
                                             call.position + 1, r.awaits,
                                             IF r.awaits = 0 THEN "ready" ELSE "waiting",
                                             call.before)]
                    /\ lastOp' = "resubscribeAll.step"
                    /\ args' = <<>>
    /\ raised' = FALSE
    /\ out' = <<>>
    /\ inner' = <<>>
    /\ returned' = <<>>
    /\ UNCHANGED <<reconnectAttempts, reconnectTimers, heartbeatInterval, pmIdVars,
                   now, hour, feeds, scannerVars, coordinatorVars>>

NextSocket ==
    \/ wsConnect
    \/ \E pool \in SocketPools, t \in ClockReads : wsSubscribeToPoolAccount(pool, t)
    \/ \E i \in 1..MaxSockets, t \in ClockReads : wsSubscribeResume(i, t)
    \/ wsClose
    \/ \E k \in 1..MaxSockets, failed \in BOOLEAN : SocketCloses(k, failed)
    \/ reconnectTimer
    \/ \E k \in 1..MaxSockets, t \in ClockReads : SocketOpens(k, t)
    \/ \E i \in 1..MaxSockets, t \in ClockReads : resubscribeAllStep(i, t)

SpecSocket == InitSystem /\ [][NextSocket]_vars

\* the owner's calls that may open a connection
OwnerConnects == {"ws.connect", "ws.subscribeToPoolAccount"}

\* C37: a client whose connection the owner closed, ws being null since, gets a new
\* socket only in a step of the owner's connect() or subscribeToPoolAccount(); the
\* counter of reconnection attempts never exceeds maxReconnectAttempts, a
\* reconnection is scheduled only below that limit, and the counter goes back only
\* to 0 and only when a socket opens.
C37_NoReconnectAfterClose ==
    [][/\ (ws = 0 /\ Len(sockets') > Len(sockets)) => lastOp' \in OwnerConnects
       /\ reconnectAttempts' <= maxReconnectAttempts
       /\ reconnectTimers' > reconnectTimers => reconnectAttempts < maxReconnectAttempts
       /\ reconnectAttempts' < reconnectAttempts =>
             (reconnectAttempts' = 0 /\ lastOp' = "ws.open")]_vars

\* the owner closed an open connection, and the reconnection timer set by the
\* 'close' handler of the closed socket made the client connect again
C37_Witness ==
    /\ lastOp = "ws.reconnectTimer"
    /\ Len(sockets) = 2
    /\ sockets[1] = "closed"
    /\ sockets[2] = "connecting"
    /\ ws = 2
    /\ subscriptions = <<>>
    /\ reconnectAttempts = 1

\* how many entries of the map name a pool
EntriesFor(subs, pool) == Cardinality({k \in DOMAIN subs : subs[k].pool = pool})

\* C38: when resubscribeAll() ends, every pool that had an entry when it began has
\* exactly one entry.
C38_OneEntryPerPool ==
    lastOp = "resubscribeAll.done" =>
        \A pool \in args : EntriesFor(subscriptions, pool) = 1

\* resubscribeAll() ended on an open connection, after a reconnection, with two
\* entries for pool 58oQ, the only pool that was subscribed
C38_Witness ==
    /\ lastOp = "resubscribeAll.done"
    /\ args = {"58oQ"}
    /\ IsOpen(sockets, ws)
    /\ Len(sockets) = 2
    /\ EntriesFor(subscriptions, "58oQ") = 2

====
